---- MODULE Spec2Model ----
(***************************************************************************)
(* Model of the signal-scoring core of the AI trader repository: the two   *)
(* edge-function variants of analyzeMarket and their helpers               *)
(*   "fixed"        : src/unnamed/part_003 (hard-coded threshold 0.6)       *)
(*   "configurable" : src/supabase/functions/ai-trading-analysis/index.ts  *)
(*                    (threshold ai_model_config.confidence_threshold||0.7)*)
(*                                                                         *)
(* JavaScript numbers are modelled as exact reals extended with the IEEE   *)
(* special values NaN, +Infinity and -Infinity.  A finite value is         *)
(*     n/d + sgn(rn) * sqrt(|rn|/rd)                                       *)
(* with n/d and |rn|/rd in lowest terms; the root part is only ever        *)
(* produced by Math.sqrt.  Rounding of the binary floating-point format    *)
(* and the sign of zero are not modelled.                                  *)
(***************************************************************************)
EXTENDS Integers, Sequences, FiniteSets, TLC

----------------------------------------------------------------------------
(* Number arithmetic                                                        *)

RECURSIVE GCD(_, _)
GCD(a, b) == IF b = 0 THEN a ELSE GCD(b, a % b)

AbsInt(i) == IF i < 0 THEN -i ELSE i

SgnInt(i) == IF i > 0 THEN 1 ELSE IF i < 0 THEN -1 ELSE 0

LCM(a, b) == (a \div GCD(a, b)) * b

NaN == [k |-> "nan", n |-> 0, d |-> 1, rn |-> 0, rd |-> 1]

Infinity(s) == [k |-> "inf", n |-> s, d |-> 1, rn |-> 0, rd |-> 1]

\* the rational n/d (d # 0) in lowest terms with a positive denominator
Rat(n, d) ==
  LET g == GCD(AbsInt(n), AbsInt(d))
      s == IF d < 0 THEN -1 ELSE 1
  IN [k |-> "fin", n |-> s * (n \div g), d |-> s * (d \div g), rn |-> 0, rd |-> 1]

Num(i) == Rat(i, 1)

\* a + sgn(rn) * sqrt(|rn|/rd) for a rational a
WithRoot(a, rn, rd) ==
  LET g == GCD(AbsInt(rn), rd)
  IN IF rn = 0 THEN a ELSE [a EXCEPT !.rn = rn \div g, !.rd = rd \div g]

IsNaN(x) == x.k = "nan"

IsFinite(x) == x.k = "fin"

IsRational(x) == x.k = "fin" /\ x.rn = 0

Sign(x) ==
  CASE x.k = "nan" -> 0
    [] x.k = "inf" -> x.n
    [] x.k = "fin" /\ x.rn = 0 -> SgnInt(x.n)
    [] x.k = "fin" /\ x.rn # 0 /\ SgnInt(x.n) \in {0, SgnInt(x.rn)} -> SgnInt(x.rn)
    [] x.k = "fin" /\ x.rn # 0 /\ SgnInt(x.n) = -SgnInt(x.rn) ->
         \* |a| against sqrt(r), by their squares
         SgnInt(x.n) * SgnInt(x.n * x.n * x.rd - AbsInt(x.rn) * x.d * x.d)

Neg(x) ==
  CASE x.k = "nan" -> NaN
    [] x.k = "inf" -> Infinity(-x.n)
    [] x.k = "fin" -> [x EXCEPT !.n = -x.n, !.rn = -x.rn]

Add(x, y) ==
  CASE x.k = "nan" \/ y.k = "nan" -> NaN
    [] x.k = "inf" /\ y.k = "inf" -> IF x.n = y.n THEN x ELSE NaN
    [] x.k = "inf" /\ y.k = "fin" -> x
    [] x.k = "fin" /\ y.k = "inf" -> y
    [] x.k = "fin" /\ y.k = "fin" /\ (x.rn = 0 \/ y.rn = 0) ->
         LET l == LCM(x.d, y.d)
             r == Rat(x.n * (l \div x.d) + y.n * (l \div y.d), l)
         IN IF x.rn = 0 THEN WithRoot(r, y.rn, y.rd) ELSE WithRoot(r, x.rn, x.rd)

Sub(x, y) == Add(x, Neg(y))

Mul(x, y) ==
  CASE x.k = "nan" \/ y.k = "nan" -> NaN
    [] x.k = "inf" \/ y.k = "inf" ->
         IF Sign(x) = 0 \/ Sign(y) = 0 THEN NaN ELSE Infinity(Sign(x) * Sign(y))
    [] x.k = "fin" /\ y.k = "fin" /\ x.rn = 0 /\ y.rn = 0 ->
         LET g1 == GCD(AbsInt(x.n), y.d)
             g2 == GCD(AbsInt(y.n), x.d)
         IN Rat((x.n \div g1) * (y.n \div g2), (x.d \div g2) * (y.d \div g1))
    [] x.k = "fin" /\ y.k = "fin" /\ x.rn = 0 /\ y.rn # 0 ->
         \* c * (a + s*sqrt(r)) = c*a + sgn(c)*s*sqrt(c*c*r)
         LET g == GCD(AbsInt(y.rn), x.d * x.d)
             h == GCD(x.n * x.n, y.rd)
         IN WithRoot(Rat(x.n * y.n, x.d * y.d),
                     SgnInt(x.n) * ((x.n * x.n) \div h) * (y.rn \div g),
                     ((x.d * x.d) \div g) * (y.rd \div h))
    [] x.k = "fin" /\ y.k = "fin" /\ x.rn # 0 /\ y.rn = 0 ->
         LET g == GCD(AbsInt(x.rn), y.d * y.d)
             h == GCD(y.n * y.n, x.rd)
         IN WithRoot(Rat(x.n * y.n, x.d * y.d),
                     SgnInt(y.n) * ((y.n * y.n) \div h) * (x.rn \div g),
                     ((y.d * y.d) \div g) * (x.rd \div h))

Div(x, y) ==
  CASE x.k = "nan" \/ y.k = "nan" -> NaN
    [] x.k = "inf" /\ y.k = "inf" -> NaN
    [] x.k = "inf" /\ y.k = "fin" ->
         Infinity(x.n * (IF Sign(y) = -1 THEN -1 ELSE 1))
    [] x.k = "fin" /\ y.k = "inf" -> Num(0)
    [] x.k = "fin" /\ y.k = "fin" /\ y.rn = 0 /\ y.n = 0 ->
         IF Sign(x) = 0 THEN NaN ELSE Infinity(Sign(x))
    [] x.k = "fin" /\ y.k = "fin" /\ y.rn = 0 /\ y.n # 0 ->
         Mul(x, Rat(y.d, y.n))

\* the relational operators are false whenever an operand is NaN
Gt(x, y) == LET z == Sub(x, y) IN z.k # "nan" /\ Sign(z) = 1

Lt(x, y) == LET z == Sub(x, y) IN z.k # "nan" /\ Sign(z) = -1

Geq(x, y) == x.k # "nan" /\ y.k # "nan" /\ ~Lt(x, y)

Leq(x, y) == x.k # "nan" /\ y.k # "nan" /\ ~Gt(x, y)

\* x === y
StrictEquals(x, y) == x.k # "nan" /\ y.k # "nan" /\ x = y

\* Math.abs
MathAbs(x) == IF Sign(x) = -1 THEN Neg(x) ELSE x

\* Math.min
MathMin(x, y) ==
  IF x.k = "nan" \/ y.k = "nan" THEN NaN ELSE IF Lt(y, x) THEN y ELSE x

\* Math.pow(x, 2)
MathPow2(x) == Mul(x, x)

RECURSIVE ISqrtBetween(_, _, _)
\* the largest r in lo..hi with r*r <= i  (lo*lo <= i)
ISqrtBetween(i, lo, hi) ==
  IF lo >= hi THEN lo
  ELSE LET mid == (lo + hi + 1) \div 2
       IN IF mid * mid <= i THEN ISqrtBetween(i, mid, hi)
          ELSE ISqrtBetween(i, lo, mid - 1)

ISqrt(i) == ISqrtBetween(i, 0, IF i < 46340 THEN i ELSE 46340)

IsSquare(i) == ISqrt(i) * ISqrt(i) = i

\* Math.sqrt
MathSqrt(x) ==
  CASE x.k = "nan" -> NaN
    [] x.k = "inf" -> IF x.n = 1 THEN x ELSE NaN
    [] x.k = "fin" /\ x.rn = 0 /\ x.n < 0 -> NaN
    [] x.k = "fin" /\ x.rn = 0 /\ x.n >= 0 ->
         IF IsSquare(x.n) /\ IsSquare(x.d)
         THEN Rat(ISqrt(x.n), ISqrt(x.d))
         ELSE WithRoot(Num(0), x.n, x.d)

\* Math.floor of a finite value
MathFloor(x) ==
  IF x.rn = 0 THEN x.n \div x.d
  ELSE LET g  == ISqrt(AbsInt(x.rn) \div x.rd)
           lo == (x.n \div x.d) + (IF x.rn > 0 THEN g ELSE -g - 1)
       IN IF Sign(Sub(x, Num(lo + 1))) >= 0 THEN lo + 1 ELSE lo

Pow10(digits) == CASE digits = 0 -> 1 [] digits = 1 -> 10 [] digits = 2 -> 100
                   [] digits = 6 -> 1000000

\* Number(x.toFixed(digits)): the multiple of 10^-digits nearest to x, the
\* larger magnitude on a tie; NaN and the infinities print and parse as
\* themselves
NumberToFixed(x, digits) ==
  IF x.k # "fin" THEN x
  ELSE LET s == Pow10(digits)
           m == Add(Mul(MathAbs(x), Num(s)), Rat(1, 2))
       IN Rat((IF Sign(x) = -1 THEN -1 ELSE 1) * MathFloor(m), s)

\* undefined (a missing property, an out-of-range index)
Undefined == [k |-> "undefined", n |-> 0, d |-> 1, rn |-> 0, rd |-> 1]

\* x || y on numbers: y when x is undefined, NaN or 0
OrElse(x, y) == IF x.k \in {"undefined", "nan"} \/ x = Num(0) THEN y ELSE x

----------------------------------------------------------------------------
(* Arrays and strings.  A string is the sequence of its characters.        *)

\* Array.prototype.slice(-count)
SliceLast(s, count) ==
  IF Len(s) <= count THEN s ELSE SubSeq(s, Len(s) - count + 1, Len(s))

RECURSIVE ReduceSumFrom(_, _, _)
\* the reduction from element i on; the accumulator is computed before the
\* callback runs on the next element
ReduceSumFrom(s, i, acc) ==
  IF i > Len(s) THEN acc
  ELSE LET a == Add(acc, s[i])
       IN IF a.k = "nan" THEN ReduceSumFrom(s, i + 1, NaN)
          ELSE ReduceSumFrom(s, i + 1, a)

\* s.reduce((a, b) => a + b, 0)
ReduceSum(s) == ReduceSumFrom(s, 1, Num(0))

\* marketData.map(d => d.close)
MapClose(marketData) == [i \in 1..Len(marketData) |-> marketData[i].close]

\* marketData.map(d => d.volume)
MapVolume(marketData) == [i \in 1..Len(marketData) |-> marketData[i].volume]

UpperCase ==
  << "A", "B", "C", "D", "E", "F", "G", "H", "I", "J", "K", "L", "M",
     "N", "O", "P", "Q", "R", "S", "T", "U", "V", "W", "X", "Y", "Z" >>

LowerCase ==
  << "a", "b", "c", "d", "e", "f", "g", "h", "i", "j", "k", "l", "m",
     "n", "o", "p", "q", "r", "s", "t", "u", "v", "w", "x", "y", "z" >>

\* String.prototype.toLowerCase
ToLowerCase(str) ==
  [i \in 1..Len(str) |->
     IF \E j \in 1..26 : UpperCase[j] = str[i]
     THEN LowerCase[CHOOSE j \in 1..26 : UpperCase[j] = str[i]]
     ELSE str[i]]

\* String.prototype.includes
Includes(str, word) ==
  \E i \in 1..(Len(str) - Len(word) + 1) : SubSeq(str, i, i + Len(word) - 1) = word

\* part_003:256
positiveWords ==
  << <<"s", "t", "r", "o", "n", "g">>,
     <<"b", "u", "l", "l", "i", "s", "h">>,
     <<"i", "n", "c", "r", "e", "a", "s", "e">>,
     <<"g", "r", "o", "w", "t", "h">>,
     <<"p", "o", "s", "i", "t", "i", "v", "e">>,
     <<"g", "a", "i", "n", "s">>,
     <<"r", "a", "l", "l", "y">>,
     <<"s", "u", "r", "g", "e">>,
     <<"a", "d", "o", "p", "t", "i", "o", "n">> >>

\* part_003:257
negativeWords ==
  << <<"w", "e", "a", "k">>,
     <<"b", "e", "a", "r", "i", "s", "h">>,
     <<"d", "e", "c", "r", "e", "a", "s", "e">>,
     <<"d", "e", "c", "l", "i", "n", "e">>,
     <<"n", "e", "g", "a", "t", "i", "v", "e">>,
     <<"l", "o", "s", "s", "e", "s">>,
     <<"c", "r", "a", "s", "h">>,
     <<"d", "r", "o", "p">>,
     <<"f", "e", "a", "r">> >>

\* index.ts:186
positiveWordsCfg ==
  << <<"s", "t", "r", "o", "n", "g">>,
     <<"b", "u", "l", "l", "i", "s", "h">>,
     <<"i", "n", "c", "r", "e", "a", "s", "e">>,
     <<"g", "r", "o", "w", "t", "h">>,
     <<"p", "o", "s", "i", "t", "i", "v", "e">>,
     <<"g", "a", "i", "n", "s">>,
     <<"r", "a", "l", "l", "y">>,
     <<"s", "u", "r", "g", "e">> >>

\* index.ts:187
negativeWordsCfg ==
  << <<"w", "e", "a", "k">>,
     <<"b", "e", "a", "r", "i", "s", "h">>,
     <<"d", "e", "c", "r", "e", "a", "s", "e">>,
     <<"d", "e", "c", "l", "i", "n", "e">>,
     <<"n", "e", "g", "a", "t", "i", "v", "e">>,
     <<"l", "o", "s", "s", "e", "s">>,
     <<"c", "r", "a", "s", "h">>,
     <<"d", "r", "o", "p">> >>

\* "strong bullish rally"
SnippetRally ==
  <<"s", "t", "r", "o", "n", "g", " ", "b", "u", "l", "l", "i", "s", "h", " ", "r", "a", "l", "l", "y">>

\* "weak bearish decline"
SnippetBearish ==
  <<"w", "e", "a", "k", " ", "b", "e", "a", "r", "i", "s", "h", " ", "d", "e", "c", "l", "i", "n", "e">>

\* "Institutional adoption increasing"
SnippetAdoption ==
  <<"I", "n", "s", "t", "i", "t", "u", "t", "i", "o", "n", "a", "l", " ", "a", "d", "o", "p", "t", "i", "o", "n", " ", "i", "n", "c", "r", "e", "a", "s", "i", "n", "g">>

\* "FEAR of a Crash"
SnippetFear ==
  <<"F", "E", "A", "R", " ", "o", "f", " ", "a", " ", "C", "r", "a", "s", "h">>

\* "strong bullish increase growth positive gains rally drop"
SnippetMixed ==
  <<"s", "t", "r", "o", "n", "g", " ", "b", "u", "l", "l", "i", "s", "h", " ", "i", "n", "c", "r", "e", "a", "s", "e", " ", "g", "r", "o", "w", "t", "h", " ", "p", "o", "s", "i", "t", "i", "v", "e", " ", "g", "a", "i", "n", "s", " ", "r", "a", "l", "l", "y", " ", "d", "r", "o", "p">>

\* "no news today"
SnippetQuiet ==
  <<"n", "o", " ", "n", "e", "w", "s", " ", "t", "o", "d", "a", "y">>

\* "Gains surge"
SnippetGains ==
  <<"G", "a", "i", "n", "s", " ", "s", "u", "r", "g", "e">>

\* "Market shows positive momentum"
SnippetMomentum ==
  <<"M", "a", "r", "k", "e", "t", " ", "s", "h", "o", "w", "s", " ", "p", "o", "s", "i", "t", "i", "v", "e", " ", "m", "o", "m", "e", "n", "t", "u", "m">>

----------------------------------------------------------------------------
(* The helpers of the fixed-threshold edge function, src/unnamed/part_003  *)

\* calculateRSI's default period, the one its only caller passes
Period == 14

\* mutant of calculateTechnicalScore: the average is taken over the whole
\* series instead of its last 20 bars
calculateTechnicalScore_WholeSeries(marketData) ==
  IF Len(marketData) < 2 THEN Rat(1, 2)
  ELSE LET latestClose   == marketData[Len(marketData)].close
           previousClose == marketData[Len(marketData) - 1].close
           priceChange   == Div(Sub(latestClose, previousClose), previousClose)
           recentPrices  == MapClose(marketData)
           sma           == Div(ReduceSum(recentPrices), Num(Len(recentPrices)))
           trendScore    == IF Gt(latestClose, sma) THEN Rat(6, 10) ELSE Rat(4, 10)
           momentumScore == IF Gt(priceChange, Num(0)) THEN Rat(6, 10) ELSE Rat(4, 10)
       IN Div(Add(trendScore, momentumScore), Num(2))

\* mutant of calculateTechnicalScore: the two scores are added around 0.5
\* instead of averaged
calculateTechnicalScore_Spread(marketData) ==
  IF Len(marketData) < 2 THEN Rat(1, 2)
  ELSE LET latestClose   == marketData[Len(marketData)].close
           previousClose == marketData[Len(marketData) - 1].close
           priceChange   == Div(Sub(latestClose, previousClose), previousClose)
           recentPrices  == MapClose(SliceLast(marketData, 20))
           sma           == Div(ReduceSum(recentPrices), Num(Len(recentPrices)))
           trendScore    == IF Gt(latestClose, sma) THEN Rat(6, 10) ELSE Rat(4, 10)
           momentumScore == IF Gt(priceChange, Num(0)) THEN Rat(6, 10) ELSE Rat(4, 10)
       IN Sub(Add(trendScore, momentumScore), Rat(1, 2))

calculateTechnicalScore(marketData) ==
  IF Len(marketData) < 2 THEN Rat(1, 2)
  ELSE LET latestClose   == marketData[Len(marketData)].close
           previousClose == marketData[Len(marketData) - 1].close
           priceChange   == Div(Sub(latestClose, previousClose), previousClose)
           recentPrices  == MapClose(SliceLast(marketData, 20))
           sma           == Div(ReduceSum(recentPrices), Num(Len(recentPrices)))
           trendScore    == IF Gt(latestClose, sma) THEN Rat(6, 10) ELSE Rat(4, 10)
           momentumScore == IF Gt(priceChange, Num(0)) THEN Rat(6, 10) ELSE Rat(4, 10)
       IN Div(Add(trendScore, momentumScore), Num(2))

RECURSIVE RSILoop(_, _, _, _)
\* the for loop of calculateRSI from (1-based) index i on: <<gains, losses>>
RSILoop(prices, i, gains, losses) ==
  IF i > Len(prices) THEN <<gains, losses>>
  ELSE LET change == Sub(prices[i], prices[i - 1])
       IN IF Gt(change, Num(0))
          THEN RSILoop(prices, i + 1, Add(gains, change), losses)
          ELSE RSILoop(prices, i + 1, gains, Sub(losses, change))

\* mutant of calculateRSI: the guard is prices.length < period, so with exactly
\* `period` prices the first change reads prices[-1], undefined, and every sum
\* is NaN
calculateRSI_GuardOffByOne(prices, period) ==
  IF Len(prices) < period THEN Num(50)
  ELSE IF Len(prices) = period THEN NaN
  ELSE LET sums    == RSILoop(prices, Len(prices) - period + 1, Num(0), Num(0))
           avgGain == Div(sums[1], Num(period))
           avgLoss == Div(sums[2], Num(period))
       IN IF StrictEquals(avgLoss, Num(0)) THEN Num(100)
          ELSE LET rs == Div(avgGain, avgLoss)
               IN Sub(Num(100), Div(Num(100), Add(Num(1), rs)))

\* mutant of calculateRSI: no guard for a zero average loss
calculateRSI_NoZeroLossGuard(prices, period) ==
  IF Len(prices) < period + 1 THEN Num(50)
  ELSE LET sums    == RSILoop(prices, Len(prices) - period + 1, Num(0), Num(0))
           avgGain == Div(sums[1], Num(period))
           avgLoss == Div(sums[2], Num(period))
           rs      == Div(avgGain, avgLoss)
       IN Sub(Num(100), Div(Num(100), Add(Num(1), rs)))

calculateRSI(prices, period) ==
  IF Len(prices) < period + 1 THEN Num(50)
  ELSE LET sums    == RSILoop(prices, Len(prices) - period + 1, Num(0), Num(0))
           avgGain == Div(sums[1], Num(period))
           avgLoss == Div(sums[2], Num(period))
       IN IF StrictEquals(avgLoss, Num(0)) THEN Num(100)
          ELSE LET rs == Div(avgGain, avgLoss)
               IN Sub(Num(100), Div(Num(100), Add(Num(1), rs)))

\* marketData[marketData.length - 1]?.close
LastCloseOrUndefined(marketData) ==
  IF Len(marketData) = 0 THEN Undefined ELSE marketData[Len(marketData)].close

\* calculateTechnicalIndicators with the fallback taken up to 14 bars
calculateTechnicalIndicators_FallbackAt14(marketData) ==
  IF Len(marketData) <= 14
  THEN [rsi          |-> Num(50),
        sma_20       |-> OrElse(LastCloseOrUndefined(marketData), Num(50000)),
        sma_50       |-> OrElse(LastCloseOrUndefined(marketData), Num(50000)),
        macd         |-> Num(0),
        volume_trend |-> "neutral"]
  ELSE LET closes       == MapClose(marketData)
           volumes      == MapVolume(marketData)
           rsi          == calculateRSI(closes, 14)
           sma20        == Div(ReduceSum(SliceLast(closes, 20)), Num(20))
           sma50        == Div(ReduceSum(SliceLast(closes, 50)),
                               Num(IF Len(closes) < 50 THEN Len(closes) ELSE 50))
           avgVolume    == Div(ReduceSum(SliceLast(volumes, 20)), Num(20))
           latestVolume == volumes[Len(volumes)]
           volumeTrend  == IF Gt(latestVolume, avgVolume) THEN "increasing"
                           ELSE "decreasing"
       IN [rsi          |-> NumberToFixed(rsi, 2),
           sma_20       |-> NumberToFixed(sma20, 2),
           sma_50       |-> NumberToFixed(sma50, 2),
           macd         |-> NumberToFixed(
                              Mul(Div(Sub(sma20, sma50), sma50), Num(100)), 2),
           volume_trend |-> volumeTrend]

calculateTechnicalIndicators(marketData) ==
  IF Len(marketData) < 14
  THEN [rsi          |-> Num(50),
        sma_20       |-> OrElse(LastCloseOrUndefined(marketData), Num(50000)),
        sma_50       |-> OrElse(LastCloseOrUndefined(marketData), Num(50000)),
        macd         |-> Num(0),
        volume_trend |-> "neutral"]
  ELSE LET closes       == MapClose(marketData)
           volumes      == MapVolume(marketData)
           rsi          == calculateRSI(closes, 14)
           sma20        == Div(ReduceSum(SliceLast(closes, 20)), Num(20))
           sma50        == Div(ReduceSum(SliceLast(closes, 50)),
                               Num(IF Len(closes) < 50 THEN Len(closes) ELSE 50))
           avgVolume    == Div(ReduceSum(SliceLast(volumes, 20)), Num(20))
           latestVolume == volumes[Len(volumes)]
           volumeTrend  == IF Gt(latestVolume, avgVolume) THEN "increasing"
                           ELSE "decreasing"
       IN [rsi          |-> NumberToFixed(rsi, 2),
           sma_20       |-> NumberToFixed(sma20, 2),
           sma_50       |-> NumberToFixed(sma50, 2),
           macd         |-> NumberToFixed(
                              Mul(Div(Sub(sma20, sma50), sma50), Num(100)), 2),
           volume_trend |-> volumeTrend]

RECURSIVE CountWords(_, _, _)
\* words.forEach(word => { if (lowerNews.includes(word)) count++ }) from word i on
CountWords(lowerNews, words, i) ==
  IF i > Len(words) THEN 0
  ELSE (IF Includes(lowerNews, words[i]) THEN 1 ELSE 0)
       + CountWords(lowerNews, words, i + 1)

RECURSIVE CountNews(_, _, _)
\* newsData.forEach(news => ...) from snippet i on, for one word list
CountNews(newsData, words, i) ==
  IF i > Len(newsData) THEN 0
  ELSE CountWords(ToLowerCase(newsData[i]), words, 1)
       + CountNews(newsData, words, i + 1)

\* mutant of analyzeSentiment: no guard for zero hits
analyzeSentiment_NoZeroGuard(newsData) ==
  IF Len(newsData) = 0 THEN Rat(1, 2)
  ELSE LET positiveCount == CountNews(newsData, positiveWords, 1)
           negativeCount == CountNews(newsData, negativeWords, 1)
           total         == positiveCount + negativeCount
       IN Div(Num(positiveCount), Num(total))

analyzeSentiment(newsData) ==
  IF Len(newsData) = 0 THEN Rat(1, 2)
  ELSE LET positiveCount == CountNews(newsData, positiveWords, 1)
           negativeCount == CountNews(newsData, negativeWords, 1)
           total         == positiveCount + negativeCount
       IN IF total = 0 THEN Rat(1, 2) ELSE Div(Num(positiveCount), Num(total))

RECURSIVE ReturnsFrom(_, _)
\* the returns pushed by the loop of calculateVolatility from (1-based) bar i on
ReturnsFrom(marketData, i) ==
  IF i > Len(marketData) THEN << >>
  ELSE << Div(Sub(marketData[i].close, marketData[i - 1].close),
              marketData[i - 1].close) >>
       \o ReturnsFrom(marketData, i + 1)

RECURSIVE ReduceSquares(_, _, _, _)
\* returns.reduce((sum, ret) => sum + Math.pow(ret - mean, 2), 0)
ReduceSquares(returns, mean, i, sum) ==
  IF i > Len(returns) THEN sum
  ELSE ReduceSquares(returns, mean, i + 1,
                     Add(sum, MathPow2(Sub(returns[i], mean))))

\* mutant of VarianceOfReturns: the squares are averaged over the number of
\* bars instead of the number of returns
VarianceOfReturns_OverBars(marketData) ==
  LET returns == ReturnsFrom(marketData, 2)
      mean    == Div(ReduceSum(returns), Num(Len(returns)))
  IN Div(ReduceSquares(returns, mean, 1, Num(0)), Num(Len(marketData)))

\* the variance whose square root calculateVolatility returns
VarianceOfReturns(marketData) ==
  LET returns == ReturnsFrom(marketData, 2)
      mean    == Div(ReduceSum(returns), Num(Len(returns)))
  IN Div(ReduceSquares(returns, mean, 1, Num(0)), Num(Len(returns)))

calculateVolatility(marketData) ==
  IF Len(marketData) < 2 THEN Rat(2, 100)
  ELSE MathSqrt(VarianceOfReturns(marketData))

\* a thrown Error and a returned value, as the outcome of a call
Throw(message) == [threw |-> TRUE, error |-> message]

Return(value) == [threw |-> FALSE, value |-> value]

\* the outcome of .maybeSingle() when no row matches: data is null
NoStrategy == [found |-> FALSE]

\* 50000 + Math.random() * 5000, for a draw random in [0, 1)
RandomPrice(random) == Add(Num(50000), Mul(random, Num(5000)))

\* combinedScore (line 133)
CombinedScore(technicalScore, sentimentScore) ==
  Add(Mul(technicalScore, Rat(6, 10)), Mul(sentimentScore, Rat(4, 10)))

\* mutant of Action: BUY already at the threshold
Action_AtThreshold(combinedScore, threshold) ==
  IF Geq(combinedScore, threshold) THEN "BUY"
  ELSE IF Lt(combinedScore, Sub(Num(1), threshold)) THEN "SELL"
  ELSE "HOLD"

\* action (lines 136-142)
Action(combinedScore, threshold) ==
  IF Gt(combinedScore, threshold) THEN "BUY"
  ELSE IF Lt(combinedScore, Sub(Num(1), threshold)) THEN "SELL"
  ELSE "HOLD"

\* mutant of Confidence: the distance from 0.5 is not doubled
Confidence_NotDoubled(combinedScore) ==
  MathMin(Rat(95, 100), MathAbs(Sub(combinedScore, Rat(1, 2))))

\* confidence (line 144)
Confidence(combinedScore) ==
  MathMin(Rat(95, 100), Mul(MathAbs(Sub(combinedScore, Rat(1, 2))), Num(2)))

\* priceTarget (lines 147-151)
PriceTarget(action, latestPrice, volatility) ==
  IF action = "BUY"
  THEN Mul(latestPrice, Add(Num(1), Mul(volatility, Num(2))))
  ELSE IF action = "SELL"
  THEN Mul(latestPrice, Sub(Num(1), Mul(volatility, Num(2))))
  ELSE latestPrice

\* mutant of StopLoss: the stop of a BUY is placed above the price, like a
\* SELL's
StopLoss_SameSide(action, latestPrice, stop_loss_percentage) ==
  IF action = "BUY"
  THEN Mul(latestPrice, Add(Num(1), Div(stop_loss_percentage, Num(100))))
  ELSE IF action = "SELL"
  THEN Mul(latestPrice, Add(Num(1), Div(stop_loss_percentage, Num(100))))
  ELSE latestPrice

\* stopLoss (lines 153-157)
StopLoss(action, latestPrice, stop_loss_percentage) ==
  IF action = "BUY"
  THEN Mul(latestPrice, Sub(Num(1), Div(stop_loss_percentage, Num(100))))
  ELSE IF action = "SELL"
  THEN Mul(latestPrice, Add(Num(1), Div(stop_loss_percentage, Num(100))))
  ELSE latestPrice

\* analyzeMarket with the sentiment label taken from the sentiment score alone
analyzeMarket_LabelFromSentiment(strategy, marketData, newsData, random) ==
  IF ~strategy.found THEN Throw("Strategy not found")
  ELSE
  LET symbol == IF Len(strategy.symbols) > 0 THEN strategy.symbols[1]
                ELSE "BTC/USDT"
      latestPrice == IF Len(marketData) > 0
                     THEN marketData[Len(marketData)].close
                     ELSE RandomPrice(random)
      technicalScore == calculateTechnicalScore(marketData)
      sentimentScore == analyzeSentiment(newsData)
      combinedScore  == CombinedScore(technicalScore, sentimentScore)
      threshold   == Rat(6, 10)
      action      == Action(combinedScore, threshold)
      confidence  == Confidence(combinedScore)
      volatility  == calculateVolatility(marketData)
      priceTarget == PriceTarget(action, latestPrice, volatility)
      stopLoss    == StopLoss(action, latestPrice, strategy.stop_loss_percentage)
      technicalIndicators == calculateTechnicalIndicators(marketData)
      sentimentAnalysis ==
        [overall_sentiment |->
           IF Gt(sentimentScore, Rat(6, 10)) THEN "positive"
           ELSE IF Lt(sentimentScore, Rat(4, 10)) THEN "negative"
           ELSE "neutral",
         confidence       |-> sentimentScore,
         sources_analyzed |-> Len(newsData)]
  IN Return(
       [symbol       |-> symbol,
        action       |-> action,
        confidence   |-> confidence,
        price_target |-> NumberToFixed(priceTarget, 2),
        stop_loss    |-> NumberToFixed(stopLoss, 2),
        \* the values the rationale template interpolates
        rationale    |-> [technical  |-> NumberToFixed(
                                           Mul(technicalScore, Num(100)), 1),
                          sentiment  |-> sentimentAnalysis.overall_sentiment,
                          risk_level |-> strategy.risk_level],
        technical_indicators |-> technicalIndicators,
        sentiment_analysis   |-> sentimentAnalysis])

\* analyzeMarket of part_003 after its strategy lookup returned `strategy`
analyzeMarket(strategy, marketData, newsData, random) ==
  IF ~strategy.found THEN Throw("Strategy not found")
  ELSE
  LET symbol == IF Len(strategy.symbols) > 0 THEN strategy.symbols[1]
                ELSE "BTC/USDT"
      latestPrice == IF Len(marketData) > 0
                     THEN marketData[Len(marketData)].close
                     ELSE RandomPrice(random)
      technicalScore == calculateTechnicalScore(marketData)
      sentimentScore == analyzeSentiment(newsData)
      combinedScore  == CombinedScore(technicalScore, sentimentScore)
      threshold   == Rat(6, 10)
      action      == Action(combinedScore, threshold)
      confidence  == Confidence(combinedScore)
      volatility  == calculateVolatility(marketData)
      priceTarget == PriceTarget(action, latestPrice, volatility)
      stopLoss    == StopLoss(action, latestPrice, strategy.stop_loss_percentage)
      technicalIndicators == calculateTechnicalIndicators(marketData)
      sentimentAnalysis ==
        [overall_sentiment |->
           IF Gt(combinedScore, Rat(6, 10)) THEN "positive"
           ELSE IF Lt(combinedScore, Rat(4, 10)) THEN "negative"
           ELSE "neutral",
         confidence       |-> sentimentScore,
         sources_analyzed |-> Len(newsData)]
  IN Return(
       [symbol       |-> symbol,
        action       |-> action,
        confidence   |-> confidence,
        price_target |-> NumberToFixed(priceTarget, 2),
        stop_loss    |-> NumberToFixed(stopLoss, 2),
        \* the values the rationale template interpolates
        rationale    |-> [technical  |-> NumberToFixed(
                                           Mul(technicalScore, Num(100)), 1),
                          sentiment  |-> sentimentAnalysis.overall_sentiment,
                          risk_level |-> strategy.risk_level],
        technical_indicators |-> technicalIndicators,
        sentiment_analysis   |-> sentimentAnalysis])

----------------------------------------------------------------------------
(* The configurable edge function,                                         *)
(* src/supabase/functions/ai-trading-analysis/index.ts                     *)

\* mutant of calculateTechnicalScoreCfg: no length guard, the comparisons
\* against the missing bars are false
calculateTechnicalScoreCfg_NoGuard(marketData) ==
  IF Len(marketData) < 2 THEN Rat(4, 10)
  ELSE LET latestClose   == marketData[Len(marketData)].close
           previousClose == marketData[Len(marketData) - 1].close
           priceChange   == Div(Sub(latestClose, previousClose), previousClose)
           recentPrices  == MapClose(SliceLast(marketData, 20))
           sma           == Div(ReduceSum(recentPrices), Num(Len(recentPrices)))
           trendScore    == IF Gt(latestClose, sma) THEN Rat(6, 10) ELSE Rat(4, 10)
           momentumScore == IF Gt(priceChange, Num(0)) THEN Rat(6, 10) ELSE Rat(4, 10)
       IN Div(Add(trendScore, momentumScore), Num(2))

calculateTechnicalScoreCfg(marketData) ==
  IF Len(marketData) < 2 THEN Rat(1, 2)
  ELSE LET latestClose   == marketData[Len(marketData)].close
           previousClose == marketData[Len(marketData) - 1].close
           priceChange   == Div(Sub(latestClose, previousClose), previousClose)
           recentPrices  == MapClose(SliceLast(marketData, 20))
           sma           == Div(ReduceSum(recentPrices), Num(Len(recentPrices)))
           trendScore    == IF Gt(latestClose, sma) THEN Rat(6, 10) ELSE Rat(4, 10)
           momentumScore == IF Gt(priceChange, Num(0)) THEN Rat(6, 10) ELSE Rat(4, 10)
       IN Div(Add(trendScore, momentumScore), Num(2))

analyzeSentimentCfg(newsData) ==
  IF Len(newsData) = 0 THEN Rat(1, 2)
  ELSE LET positiveCount == CountNews(newsData, positiveWordsCfg, 1)
           negativeCount == CountNews(newsData, negativeWordsCfg, 1)
           total         == positiveCount + negativeCount
       IN IF total = 0 THEN Rat(1, 2) ELSE Div(Num(positiveCount), Num(total))

calculateVolatilityCfg(marketData) ==
  IF Len(marketData) < 2 THEN Rat(2, 100)
  ELSE LET returns  == ReturnsFrom(marketData, 2)
           mean     == Div(ReduceSum(returns), Num(Len(returns)))
           variance == Div(ReduceSquares(returns, mean, 1, Num(0)),
                           Num(Len(returns)))
       IN MathSqrt(variance)

\* combinedScore (line 126)
CombinedScoreCfg(technicalScore, sentimentScore) ==
  Add(Mul(technicalScore, Rat(6, 10)), Mul(sentimentScore, Rat(4, 10)))

\* threshold (line 128): strategy.ai_model_config?.confidence_threshold || 0.7
ThresholdCfg(strategy) == OrElse(strategy.confidence_threshold, Rat(7, 10))

\* action (lines 129-135)
ActionCfg(combinedScore, threshold) ==
  IF Gt(combinedScore, threshold) THEN "BUY"
  ELSE IF Lt(combinedScore, Sub(Num(1), threshold)) THEN "SELL"
  ELSE "HOLD"

\* confidence as returned (lines 137 and 158)
ConfidenceCfg(combinedScore) ==
  LET confidence == Mul(MathAbs(Sub(combinedScore, Rat(1, 2))), Num(2))
  IN MathMin(Rat(95, 100), confidence)

\* priceTarget (lines 140-144)
PriceTargetCfg(action, latestPrice, volatility) ==
  IF action = "BUY"
  THEN Mul(latestPrice, Add(Num(1), Mul(volatility, Num(2))))
  ELSE IF action = "SELL"
  THEN Mul(latestPrice, Sub(Num(1), Mul(volatility, Num(2))))
  ELSE latestPrice

\* stopLoss (lines 146-150)
StopLossCfg(action, latestPrice, stop_loss_percentage) ==
  IF action = "BUY"
  THEN Mul(latestPrice, Sub(Num(1), Div(stop_loss_percentage, Num(100))))
  ELSE IF action = "SELL"
  THEN Mul(latestPrice, Add(Num(1), Div(stop_loss_percentage, Num(100))))
  ELSE latestPrice

\* analyzeMarket of index.ts after its strategy lookup returned `strategy`
analyzeMarketCfg(strategy, marketData, newsData, random) ==
  IF ~strategy.found THEN Throw("Strategy not found")
  ELSE
  LET latestPrice == IF Len(marketData) > 0
                     THEN marketData[Len(marketData)].close
                     ELSE RandomPrice(random)
      technicalScore == calculateTechnicalScoreCfg(marketData)
      sentimentScore == analyzeSentimentCfg(newsData)
      combinedScore  == CombinedScoreCfg(technicalScore, sentimentScore)
      threshold   == ThresholdCfg(strategy)
      action      == ActionCfg(combinedScore, threshold)
      volatility  == calculateVolatilityCfg(marketData)
      priceTarget == PriceTargetCfg(action, latestPrice, volatility)
      stopLoss    == StopLossCfg(action, latestPrice,
                                 strategy.stop_loss_percentage)
      modelType  == IF strategy.model_type = "" THEN "LSTM" ELSE strategy.model_type
      indicators == strategy.indicators
  IN Return(
       [symbol       |-> IF strategy.strategy_type = "crypto" THEN "BTC/USDT"
                         ELSE "EUR/USD",
        action       |-> action,
        confidence   |-> ConfidenceCfg(combinedScore),
        price_target |-> NumberToFixed(priceTarget, 2),
        stop_loss    |-> NumberToFixed(stopLoss, 2),
        \* the values the rationale template interpolates
        rationale    |-> [model_type |-> modelType,
                          indicators |-> IF indicators = << >>
                                         THEN << "technical indicators" >>
                                         ELSE indicators,
                          technical  |-> NumberToFixed(
                                           Mul(technicalScore, Num(100)), 1),
                          sentiment  |-> NumberToFixed(
                                           Mul(sentimentScore, Num(100)), 1)]])

----------------------------------------------------------------------------
(* The mock-data generators: generateMockMarketData of the edge function   *)
(* (src/unnamed/part_003, the same text in index.ts) and of the client      *)
(* library (src/src/lib/aiService.ts).                                      *)
(*                                                                         *)
(* A Date is modelled by its local calendar day (a day number) and local   *)
(* hour.  setDate moves the local day and keeps the local time of day;     *)
(* toISOString prints the UTC instant, so the printed date is the local    *)
(* day, or the day before when the local hour is below the zone's offset   *)
(* from UTC on that day.  A printed date "YYYY-MM-DD" is modelled by the   *)
(* number of its UTC day, which orders the same way.                       *)

\* the local calendar day on which the generator is called
Today == 100

\* the last local day on the winter offset, in the zone with summer time
ChangeDay == Today - 2

\* hours the zone is ahead of UTC on a local day
ZoneOffset(zone, localDay) ==
  IF zone = "utc" THEN 0 ELSE IF localDay <= ChangeDay THEN 1 ELSE 2

\* new Date() in loop iteration i: the clock may pass midnight during the loop
ClockAt(clock, i) ==
  IF clock.rollover > 0 /\ i >= clock.rollover
  THEN [day |-> Today + 1, hour |-> 0]
  ELSE [day |-> Today, hour |-> clock.hour]

\* date.setDate(date.getDate() + delta)
SetDate(date, delta) == [date EXCEPT !.day = @ + delta]

\* date.toISOString().split('T')[0]
ToISODate(date, zone) ==
  IF date.hour < ZoneOffset(zone, date.day) THEN date.day - 1 ELSE date.day

\* one bar of the edge-function generator whose low is taken above the close
MockBar_LowAbove(i, days, draw, date) ==
  LET trend == Mul(Div(Num(i), Num(days)), Num(5000))
      noise == Mul(Sub(draw.noise, Rat(1, 2)), Num(2000))
      close == Add(Add(Num(50000), trend), noise)
  IN [date   |-> date,
      close  |-> NumberToFixed(close, 2),
      volume |-> Num(MathFloor(Add(Num(800000), Mul(draw.volume, Num(1200000))))),
      high   |-> NumberToFixed(Add(close, Mul(draw.high, Num(500))), 2),
      low    |-> NumberToFixed(Add(close, Mul(draw.low, Num(500))), 2),
      open   |-> NumberToFixed(
                   Add(close, Mul(Sub(draw.open, Rat(1, 2)), Num(200))), 2)]

\* the bar pushed in iteration i of the edge-function generator; draw holds
\* the five results of Math.random() of the iteration
MockBar(i, days, draw, date) ==
  LET trend == Mul(Div(Num(i), Num(days)), Num(5000))
      noise == Mul(Sub(draw.noise, Rat(1, 2)), Num(2000))
      close == Add(Add(Num(50000), trend), noise)
  IN [date   |-> date,
      close  |-> NumberToFixed(close, 2),
      volume |-> Num(MathFloor(Add(Num(800000), Mul(draw.volume, Num(1200000))))),
      high   |-> NumberToFixed(Add(close, Mul(draw.high, Num(500))), 2),
      low    |-> NumberToFixed(Sub(close, Mul(draw.low, Num(500))), 2),
      open   |-> NumberToFixed(
                   Add(close, Mul(Sub(draw.open, Rat(1, 2)), Num(200))), 2)]

\* generateMockMarketData(days) of the edge function: every iteration reads
\* the clock anew and goes back days - i days
generateMockMarketData(days, draws, clock) ==
  LET data == [k \in 1..days |->
                 MockBar(k - 1, days, draws[k],
                         ToISODate(SetDate(ClockAt(clock, k - 1),
                                           -(days - (k - 1))),
                                   clock.zone))]
  IN SubSeq(data, 1, days)

\* the bar pushed in iteration i of the client-library generator
MockBarLib(i, days, draw, date) ==
  LET trend  == Mul(Div(Num(i), Num(days)), Num(5000))
      noise  == Mul(Sub(draw.noise, Rat(1, 2)), Num(2000))
      close  == Add(Add(Num(50000), trend), noise)
      high   == Add(close, Mul(draw.high, Num(500)))
      low    == Sub(close, Mul(draw.low, Num(500)))
      open   == Add(close, Mul(Sub(draw.open, Rat(1, 2)), Num(200)))
      volume == MathFloor(Add(Num(800000), Mul(draw.volume, Num(1200000))))
  IN [date   |-> date,
      close  |-> NumberToFixed(close, 2),
      volume |-> Num(volume),
      high   |-> NumberToFixed(high, 2),
      low    |-> NumberToFixed(low, 2),
      open   |-> NumberToFixed(open, 2)]

\* generateMockMarketData(days) of the client library: the clock is read once,
\* startDate is days days back and iteration i goes i days forward from it
generateMockMarketDataLib(days, draws, clock) ==
  LET startDate == SetDate(ClockAt(clock, 0), -days)
      data == [k \in 1..days |->
                 MockBarLib(k - 1, days, draws[k],
                            ToISODate(SetDate(startDate, k - 1), clock.zone))]
  IN SubSeq(data, 1, days)

----------------------------------------------------------------------------
(* The divisors of a call: the values a call divides by, in the order of   *)
(* the code.  A division by 0 gives NaN or an infinity.                    *)

\* calculateTechnicalScore: / previousClose, / recentPrices.length
DivisorsOfTechnicalScore(marketData) ==
  IF Len(marketData) < 2 THEN {}
  ELSE {marketData[Len(marketData) - 1].close,
        Num(Len(SliceLast(MapClose(marketData), 20)))}

\* calculateRSI: / period twice, avgGain / avgLoss and 100 / (1 + rs) when
\* avgLoss is not 0
DivisorsOfRSI(prices, period) ==
  IF Len(prices) < period + 1 THEN {}
  ELSE LET sums    == RSILoop(prices, Len(prices) - period + 1, Num(0), Num(0))
           avgGain == Div(sums[1], Num(period))
           avgLoss == Div(sums[2], Num(period))
       IN {Num(period)}
          \cup (IF StrictEquals(avgLoss, Num(0)) THEN {}
                ELSE {avgLoss, Add(Num(1), Div(avgGain, avgLoss))})

\* calculateTechnicalIndicators: the divisors of calculateRSI, / 20 twice,
\* / Math.min(50, closes.length), / sma50
DivisorsOfTechnicalIndicators(marketData) ==
  IF Len(marketData) < 14 THEN {}
  ELSE LET closes == MapClose(marketData)
           count  == IF Len(closes) < 50 THEN Len(closes) ELSE 50
       IN DivisorsOfRSI(closes, 14)
          \cup {Num(20), Num(count),
                Div(ReduceSum(SliceLast(closes, 50)), Num(count))}

\* calculateVolatility: / marketData[i - 1].close for every i, / returns.length
DivisorsOfVolatility(marketData) ==
  IF Len(marketData) < 2 THEN {}
  ELSE {marketData[i - 1].close : i \in 2..Len(marketData)}
       \cup {Num(Len(marketData) - 1)}

----------------------------------------------------------------------------
(* The bars a call reads (1-based indices into marketData)                 *)

\* calculateTechnicalScore: nothing before the length guard, then the last
\* two bars and the slice(-20)
BarsReadByTechnicalScore(marketData) ==
  IF Len(marketData) < 2 THEN {}
  ELSE {Len(marketData), Len(marketData) - 1}
       \cup {i \in 1..Len(marketData) : i > Len(marketData) - 20}

BarsReadByTechnicalScoreCfg(marketData) ==
  IF Len(marketData) < 2 THEN {}
  ELSE {Len(marketData), Len(marketData) - 1}
       \cup {i \in 1..Len(marketData) : i > Len(marketData) - 20}

\* calculateTechnicalIndicators: the last bar (if any) in the fallback, every
\* bar through the two maps otherwise
BarsReadByTechnicalIndicators(marketData) ==
  IF Len(marketData) < 14
  THEN {i \in 1..Len(marketData) : i = Len(marketData)}
  ELSE 1..Len(marketData)

\* calculateVolatility: nothing before the length guard, then every bar
BarsReadByVolatility(marketData) ==
  IF Len(marketData) < 2 THEN {} ELSE 1..Len(marketData)

BarsReadByVolatilityCfg(marketData) ==
  IF Len(marketData) < 2 THEN {} ELSE 1..Len(marketData)

\* analyzeMarket: nothing when no strategy is found; otherwise the last bar
\* for latestPrice and whatever its helpers read
BarsReadByAnalyzeMarket(strategy, marketData) ==
  IF ~strategy.found THEN {}
  ELSE {i \in 1..Len(marketData) : i = Len(marketData)}
       \cup BarsReadByTechnicalScore(marketData)
       \cup BarsReadByVolatility(marketData)
       \cup BarsReadByTechnicalIndicators(marketData)

BarsReadByAnalyzeMarketCfg(strategy, marketData) ==
  IF ~strategy.found THEN {}
  ELSE {i \in 1..Len(marketData) : i = Len(marketData)}
       \cup BarsReadByTechnicalScoreCfg(marketData)
       \cup BarsReadByVolatilityCfg(marketData)

----------------------------------------------------------------------------
(* Inputs                                                                  *)

\* free closes at the end of a long series
MaxTail == 3
\* length of the constant stretch in the middle of a long series
MaxPad == 20
\* length of a freely chosen short series
MaxBars == 4
\* snippets in a news list
MaxNews == 2

Variants == {"fixed", "configurable"}

CloseValues == {0, 1, 2}

PadCloses == {0, 1}

\* an optional first bar far above the other closes
Heads == {<< >>, << 30 >>}

Pads == {[i \in 1..m |-> c] : m \in 0..MaxPad, c \in PadCloses}

Tails == UNION {[1..m -> CloseValues] : m \in 0..MaxTail}

VolumeValues == {800000, 1000000, 1500000}

\* the bars with the given closes; every volume 1000000 but the last
Bars(closes, lastVolume) ==
  [i \in 1..Len(closes) |->
     [close  |-> Num(closes[i]),
      volume |-> Num(IF i = Len(closes) THEN lastVolume ELSE 1000000)]]

\* long series: head, constant stretch, free tail
LongSeries ==
  {Bars(h \o p \o t, 1000000) : h \in Heads, p \in Pads, t \in Tails}
  \cup {Bars(<< 100, 110 >>, 1000000)}

LongSeriesWithVolume ==
  {Bars(h \o p \o t, v) : h \in Heads, p \in Pads, t \in Tails, v \in VolumeValues}

\* short series: every sequence of closes up to MaxBars, and one bar at 50000
ShortSeries ==
  {Bars(c, 1000000) : c \in UNION {[1..m -> CloseValues] : m \in 0..MaxBars}}
  \cup {Bars(<< 50000 >>, 1000000)}

Snippets ==
  {SnippetRally, SnippetBearish, SnippetAdoption, SnippetFear, SnippetMixed,
   SnippetQuiet, SnippetGains, SnippetMomentum}

NewsLists == UNION {[1..m -> Snippets] : m \in 0..MaxNews}

\* the news lists handed to analyzeMarket
AnalysisNews ==
  {<< >>, << SnippetRally >>, << SnippetRally, SnippetFear >>,
   << SnippetGains, SnippetBearish >>, << SnippetMixed >>, << SnippetBearish >>,
   \* the list executeTrade passes
   << SnippetMomentum, SnippetAdoption >>}

StrategyRow(symbols, stopLoss, threshold) ==
  [found                |-> TRUE,
   symbols              |-> symbols,
   risk_level           |-> "medium",
   stop_loss_percentage |-> stopLoss,
   strategy_type        |-> "crypto",
   confidence_threshold |-> threshold,
   model_type           |-> "",
   indicators           |-> << >>]

Strategies ==
  {NoStrategy,
   StrategyRow(<< "ETH/USDT" >>, Num(2), Undefined),
   StrategyRow(<< >>, Rat(3, 10), Rat(6, 10)),
   StrategyRow(<< "ETH/USDT" >>, Num(2), Rat(3, 10))}

\* draws of Math.random()
Randoms == {Num(0), Rat(1, 2)}

\* day counts given to the generators, besides the one executeTrade uses
MaxDays == 3

\* generateMockMarketData(50) in executeTrade, the default of the client library
MockDays == 50

DayCounts == 0..MaxDays \cup {MockDays}

Generators == {"edge", "lib"}

\* results of Math.random(), which lie in [0, 1)
DrawValues == {Num(0), Rat(1, 2), Rat(999, 1000)}

\* the five draws of one iteration: the same value for all, or the extremes
\* that bring low and high closest to and farthest from the close
DrawTuples ==
  {[noise |-> r, volume |-> r, high |-> r, low |-> r, open |-> r] :
     r \in DrawValues}
  \cup {[noise |-> Rat(999, 1000), volume |-> Num(0), high |-> Num(0),
         low |-> Rat(999, 1000), open |-> Num(0)]}

\* the draws of a call: tuple a in the odd iterations, tuple b in the even ones
DrawStream(a, b, days) == [k \in 1..days |-> IF k % 2 = 1 THEN a ELSE b]

\* the host's clock and zone: UTC or a zone that moves from UTC+1 to UTC+2
\* after ChangeDay; a call in the small hours, at noon, or across midnight
Clocks ==
  {[zone |-> z, hour |-> 1, rollover |-> 0] : z \in {"utc", "dst"}}
  \cup {[zone |-> z, hour |-> 12, rollover |-> 0] : z \in {"utc", "dst"}}
  \cup {[zone |-> z, hour |-> 23, rollover |-> 1] : z \in {"utc", "dst"}}

NoClock == [zone |-> "utc", hour |-> 0, rollover |-> 0]

----------------------------------------------------------------------------
(* The edge-function handler (Deno.serve) with analyzeMarket and           *)
(* executeTrade, as the steps between their awaits.  Several requests are  *)
(* served at a time; a step of one request runs from the return of one     *)
(* await to the next await or to the response.                             *)
(*                                                                         *)
(* A header value is the sequence of its pieces, e.g. "Bearer " and the    *)
(* token.  The signal kept for a request is its symbol, action and         *)
(* confidence: the price levels, modelled by analyzeMarket above, and the  *)
(* quantity and price columns of an inserted row are not tracked here.     *)

\* requests served at a time
MaxRequests == 2

Requests == 1..MaxRequests

Users == {"alice", "bob"}

\* req.headers.get("Authorization"): null when the header is missing
NoHeader == [present |-> FALSE, value |-> << >>]

Header(pieces) == [present |-> TRUE, value |-> pieces]

\* authHeader.replace("Bearer ", ""): the first occurrence is removed
ReplaceBearer(value) ==
  IF \E i \in 1..Len(value) : value[i] = "Bearer "
  THEN LET i == CHOOSE j \in 1..Len(value) :
                  /\ value[j] = "Bearer "
                  /\ \A h \in 1..(j - 1) : value[h] # "Bearer "
       IN SubSeq(value, 1, i - 1) \o SubSeq(value, i + 1, Len(value))
  ELSE value

\* supabase.auth.getUser(token) of the identity provider
GetUser(token) ==
  CASE token = << "token-alice" >> -> [user |-> "alice", error |-> FALSE]
    [] token = << "token-bob" >>   -> [user |-> "bob", error |-> FALSE]
    [] OTHER                       -> [user |-> "", error |-> TRUE]

\* a row of the strategies table (trading_strategies in index.ts)
StrategyOf(id, owner, active, row) ==
  [found                |-> TRUE,
   id                   |-> id,
   user_id              |-> owner,
   is_active            |-> active,
   symbols              |-> row.symbols,
   risk_level           |-> row.risk_level,
   stop_loss_percentage |-> row.stop_loss_percentage,
   strategy_type        |-> row.strategy_type,
   confidence_threshold |-> row.confidence_threshold,
   model_type           |-> row.model_type,
   indicators           |-> row.indicators]

\* the strategies stored: an active and an inactive one of alice, one of bob
StrategyTable ==
  {StrategyOf("s1", "alice", TRUE,
              StrategyRow(<< "ETH/USDT" >>, Num(2), Rat(3, 10))),
   StrategyOf("s2", "alice", FALSE,
              StrategyRow(<< >>, Num(2), Undefined)),
   StrategyOf("s3", "bob", TRUE,
              StrategyRow(<< "ETH/USDT" >>, Num(2), Undefined))}

StrategyIds == {"s1", "s2", "s3", "s9"}

\* .select("*").eq("id", strategyId).eq("user_id", userId).maybeSingle() with
\* the owner filter left out
SelectStrategy_AnyOwner(strategyId, userId) ==
  LET rows == {row \in StrategyTable : row.id = strategyId}
  IN IF Cardinality(rows) = 1 THEN CHOOSE row \in rows : TRUE ELSE NoStrategy

\* .select("*").eq("id", strategyId).eq("user_id", userId).maybeSingle():
\* the one matching row, null when there is none (or on an error)
SelectStrategy(strategyId, userId) ==
  LET rows == {row \in StrategyTable :
                 row.id = strategyId /\ row.user_id = userId}
  IN IF Cardinality(rows) = 1 THEN CHOOSE row \in rows : TRUE ELSE NoStrategy

StrategiesTableName(v) == IF v = "fixed" THEN "strategies" ELSE "trading_strategies"

\* the symbol, action and confidence of the signal analyzeMarket returns
Signal(v, strat, md, nd) ==
  IF v = "fixed"
  THEN LET combinedScore ==
             CombinedScore(calculateTechnicalScore(md), analyzeSentiment(nd))
       IN [symbol     |-> IF Len(strat.symbols) > 0 THEN strat.symbols[1]
                          ELSE "BTC/USDT",
           action     |-> Action(combinedScore, Rat(6, 10)),
           confidence |-> Confidence(combinedScore)]
  ELSE LET combinedScore ==
             CombinedScoreCfg(calculateTechnicalScoreCfg(md),
                              analyzeSentimentCfg(nd))
       IN [symbol     |-> IF strat.strategy_type = "crypto" THEN "BTC/USDT"
                          ELSE "EUR/USD",
           action     |-> ActionCfg(combinedScore, ThresholdCfg(strat)),
           confidence |-> ConfidenceCfg(combinedScore)]

NoSignal == [symbol |-> "", action |-> "", confidence |-> Undefined]

\* executeTrade skipping only below a confidence of 0.5
TradeThreshold_Half(v, strat) == Rat(1, 2)

\* the confidence below which executeTrade skips the trade
TradeThreshold(v, strat) ==
  IF v = "fixed" THEN Rat(6, 10) ELSE ThresholdCfg(strat)

\* the news executeTrade passes to analyzeMarket
TradeNews(v) ==
  IF v = "fixed" THEN << SnippetMomentum, SnippetAdoption >>
  ELSE << SnippetMomentum >>

\* the store accesses of a request, in the order they are issued
Access(op, table, userId, strategyId) ==
  [op |-> op, table |-> table, user_id |-> userId, strategy_id |-> strategyId,
   result |-> "pending"]

\* the access issued last has returned
Returned(log, result) == [log EXCEPT ![Len(log)].result = result]

NoResponse == [status |-> 0, success |-> FALSE, error |-> "", message |-> "",
               signal |-> NoSignal, cors |-> FALSE]

\* new Response(null, {status: 200, headers: corsHeaders})
OptionsResponse == [NoResponse EXCEPT !.status = 200, !.cors = TRUE]

\* the response of the catch clause: status 500, {error: error.message}
ErrorResponse(message) ==
  [NoResponse EXCEPT !.status = 500, !.error = message, !.cors = TRUE]

\* {success: true, signal} and {success: true, result}; the status defaults
\* to 200
SuccessResponse(message, signal) ==
  [NoResponse EXCEPT !.status = 200, !.success = TRUE, !.message = message,
                     !.signal = signal, !.cors = TRUE]

Given(x) == [given |-> TRUE, value |-> x]

NotGiven == [given |-> FALSE, value |-> << >>]

\* x || []
OrEmpty(x) == IF x.given THEN x.value ELSE << >>

\* the JSON body of a request; action is "" when the body has none
Body(action, strategyId, md, nd) ==
  [valid |-> TRUE, action |-> action, strategyId |-> strategyId,
   marketData |-> md, newsData |-> nd]

InvalidBody ==
  [valid |-> FALSE, action |-> "", strategyId |-> "", marketData |-> NotGiven,
   newsData |-> NotGiven]

Request(method, authHeader, body) ==
  [method |-> method, authHeader |-> authHeader, body |-> body]

AliceHeader == Header(<< "Bearer ", "token-alice" >>)

BobHeader == Header(<< "Bearer ", "token-bob" >>)

\* the requests sent to the function
RequestInputs ==
  {Request("OPTIONS", NoHeader, InvalidBody),
   Request("POST", NoHeader, Body("execute_trade", "s1", NotGiven, NotGiven)),
   Request("POST", Header(<< >>), Body("", "s1", NotGiven, NotGiven)),
   Request("POST", Header(<< "Bearer ", "token-expired" >>),
           Body("", "s1", Given(Bars(<< 1, 2 >>, 1000000)), NotGiven)),
   Request("POST", Header(<< "token-alice" >>),
           Body("", "s1", Given(Bars(<< 1, 2 >>, 1000000)),
                Given(<< SnippetRally >>))),
   Request("POST", AliceHeader, InvalidBody),
   Request("POST", AliceHeader, Body("", "s1", NotGiven, NotGiven)),
   Request("POST", AliceHeader,
           Body("", "s2", Given(Bars(<< 2, 1 >>, 1000000)),
                Given(<< SnippetBearish >>))),
   Request("POST", AliceHeader,
           Body("", "s3", Given(Bars(<< 1, 2 >>, 1000000)), NotGiven)),
   Request("POST", AliceHeader, Body("", "s9", NotGiven, NotGiven)),
   Request("POST", AliceHeader, Body("execute_trade", "s1", NotGiven, NotGiven)),
   Request("POST", AliceHeader, Body("execute_trade", "s2", NotGiven, NotGiven)),
   Request("POST", AliceHeader, Body("execute_trade", "s9", NotGiven, NotGiven)),
   Request("POST", BobHeader, Body("execute_trade", "s3", NotGiven, NotGiven)),
   Request("POST", BobHeader, Body("execute_trade", "s1", NotGiven, NotGiven))}

DrawTuple(r) == [noise |-> r, volume |-> r, high |-> r, low |-> r, open |-> r]

\* the mock series executeTrade generates: one for each technical score
TradeMocks ==
  {generateMockMarketData(MockDays, DrawStream(DrawTuple(a), DrawTuple(Num(0)),
                                               MockDays),
                          [zone |-> "utc", hour |-> 12, rollover |-> 0]) :
     a \in DrawValues}

\* a request that has not arrived
NoRequest ==
  [pc         |-> "none",
   input      |-> Request("", NoHeader, InvalidBody),
   token      |-> << >>,
   user       |-> "",
   parsed     |-> FALSE,
   caller     |-> "",
   marketData |-> << >>,
   newsData   |-> << >>,
   strategy   |-> NoStrategy,
   signal     |-> NoSignal,
   sessionId  |-> 0,
   log        |-> << >>,
   response   |-> NoResponse]

\* the request ends with a response
Respond(req, response) == [req EXCEPT !.pc = "done", !.response = response]

\* an exception escapes the handler: the request ends without a response
Catch_Escapes(req, message) == [req EXCEPT !.pc = "done"]

\* an exception reaches the catch clause of the handler
Catch(req, message) == Respond(req, ErrorResponse(message))

----------------------------------------------------------------------------
(* The tables of the migration under row-level security.  A statement is   *)
(* run by an authenticated user, whose id is auth.uid().  A row keeps its  *)
(* id, its user_id, its references (0 for NULL, and for a table without    *)
(* the column) and one data column standing for the others.  Foreign-key   *)
(* checks and the ON DELETE actions are carried out by the database itself *)
(* and are not subject to the policies.                                    *)

\* ids a row of a table can have
MaxRowId == 1

RowIds == 1..MaxRowId

\* NULL in a reference column
NoRef == 0

TableNames == {"strategies", "ai_feedback", "trades", "api_connections"}

\* strategy_id uuid REFERENCES strategies(id) ON DELETE CASCADE
HasStrategyRef(table) == table \in {"ai_feedback", "trades"}

\* feedback_id uuid REFERENCES ai_feedback(id) ON DELETE SET NULL
HasFeedbackRef(table) == table = "trades"

TableRow(id, userId, strategyId, feedbackId, data) ==
  [id |-> id, user_id |-> userId, strategy_id |-> strategyId,
   feedback_id |-> feedbackId, data |-> data]

\* the rows a statement can name for a table
RowsOf(table) ==
  {TableRow(id, u, s, f, d) :
     id \in RowIds, u \in Users,
     s \in IF HasStrategyRef(table) THEN {NoRef} \cup RowIds ELSE {NoRef},
     f \in IF HasFeedbackRef(table) THEN {NoRef} \cup RowIds ELSE {NoRef},
     d \in IF table = "strategies" THEN {0, 1} ELSE {0}}

NoTables == [t \in TableNames |-> {}]

\* CREATE POLICY ... FOR command on every table
HasPolicy_UpdateEverywhere(table, command) == TRUE

\* CREATE POLICY ... FOR command: every table has a SELECT, an INSERT and a
\* DELETE policy, and every table but ai_feedback an UPDATE policy
HasPolicy(table, command) ==
  ~(table = "ai_feedback" /\ command = "UPDATE")

\* USING (auth.uid() = user_id)
Using(uid, row) == uid = row.user_id

\* WITH CHECK (auth.uid() = user_id)
WithCheck(uid, row) == uid = row.user_id

\* the foreign keys of a row refer to rows that exist
RefsExist(tbls, row) ==
  /\ row.strategy_id = NoRef
     \/ \E s \in tbls["strategies"] : s.id = row.strategy_id
  /\ row.feedback_id = NoRef
     \/ \E f \in tbls["ai_feedback"] : f.id = row.feedback_id

\* the result of a statement: the tables after it, the rows it returned or
\* wrote, and whether it failed
Result(tbls, rows, error) == [tables |-> tbls, rows |-> rows, error |-> error]

\* SELECT * FROM table
Select(tbls, uid, table) ==
  Result(tbls,
         {row \in tbls[table] : HasPolicy(table, "SELECT") /\ Using(uid, row)},
         FALSE)

\* INSERT INTO table VALUES (row)
Insert(tbls, uid, table, row) ==
  IF /\ HasPolicy(table, "INSERT")
     /\ WithCheck(uid, row)
     /\ ~\E old \in tbls[table] : old.id = row.id
     /\ RefsExist(tbls, row)
  THEN Result([tbls EXCEPT ![table] = @ \cup {row}], {row}, FALSE)
  ELSE Result(tbls, {}, TRUE)

\* UPDATE table SET (user_id, strategy_id, feedback_id, data) = row WHERE
\* id = row.id
Update(tbls, uid, table, row) ==
  LET targets == {old \in tbls[table] :
                    /\ old.id = row.id
                    /\ HasPolicy(table, "UPDATE")
                    /\ Using(uid, old)}
  IN IF targets = {} THEN Result(tbls, {}, FALSE)
     ELSE IF WithCheck(uid, row) /\ RefsExist(tbls, row)
     THEN Result([tbls EXCEPT ![table] = (@ \ targets) \cup {row}], {row},
                 FALSE)
     ELSE Result(tbls, {}, TRUE)

\* the tables after the rows `gone` of `table` were deleted: ON DELETE CASCADE
\* removes the rows referring to a deleted strategy, ON DELETE SET NULL
\* clears the feedback_id of the trades referring to a deleted ai_feedback row
Cascade(tbls, table, gone) ==
  LET strategyIds == IF table = "strategies" THEN {row.id : row \in gone}
                     ELSE {}
      feedbackGone == {f \in tbls["ai_feedback"] :
                         \/ table = "ai_feedback" /\ f \in gone
                         \/ f.strategy_id \in strategyIds}
      tradesGone   == {t \in tbls["trades"] :
                         \/ table = "trades" /\ t \in gone
                         \/ t.strategy_id \in strategyIds}
      feedbackIds  == {f.id : f \in feedbackGone}
  IN [t \in TableNames |->
        CASE t = "ai_feedback" -> tbls[t] \ feedbackGone
          [] t = "trades" ->
               {IF row.feedback_id \in feedbackIds
                THEN [row EXCEPT !.feedback_id = NoRef] ELSE row :
                  row \in tbls[t] \ tradesGone}
          [] OTHER -> tbls[t] \ (IF t = table THEN gone ELSE {})]

\* DELETE FROM table WHERE id = id
Delete(tbls, uid, table, id) ==
  LET targets == {old \in tbls[table] :
                    /\ old.id = id
                    /\ HasPolicy(table, "DELETE")
                    /\ Using(uid, old)}
  IN Result(Cascade(tbls, table, targets), targets, FALSE)

\* INSERT INTO table VALUES (row) ON CONFLICT (id) DO UPDATE: the row must
\* pass the INSERT check, and on a conflict the UPDATE policy as well
Upsert(tbls, uid, table, row) ==
  IF ~\E old \in tbls[table] : old.id = row.id
  THEN Insert(tbls, uid, table, row)
  ELSE LET old == CHOOSE o \in tbls[table] : o.id = row.id
       IN IF /\ HasPolicy(table, "INSERT")
             /\ WithCheck(uid, row)
             /\ HasPolicy(table, "UPDATE")
             /\ Using(uid, old)
             /\ RefsExist(tbls, row)
          THEN Result([tbls EXCEPT ![table] = (@ \ {old}) \cup {row}], {row},
                      FALSE)
          ELSE Result(tbls, {}, TRUE)

\* the statement run last, with what it returned
Statement(uid, op, table, row, result) ==
  [user |-> uid, op |-> op, table |-> table, row |-> row,
   rows |-> result.rows, error |-> result.error]

NoStatement ==
  [user |-> "", op |-> "", table |-> "",
   row |-> TableRow(0, "", NoRef, NoRef, 0), rows |-> {}, error |-> FALSE]

----------------------------------------------------------------------------
(* The dashboard pages.  A page keeps React state (the lists it fetched,   *)
(* its flags) and runs its handlers as steps between awaits.               *)

\* useAuth().user of a visitor who is not signed in
NoUser == ""

\* calls of handleAnalyze followed
MaxAnalyses == 2

\* calls of toggleActive followed
MaxToggles == 3

Toggles == 1..MaxToggles

Actions == {"BUY", "SELL", "HOLD"}

\* analyzeTrading resolved to a value that is not truthy
NoResult == [action |-> ""]

\* a list item that is no row
NoRow == TableRow(0, "", NoRef, NoRef, 0)

\* handleAnalyze: where the call is, the calls made so far, the strategy
\* passed, what analyzeTrading resolved to, and what the call has done
NoAnalysis ==
  [pc |-> "idle", n |-> 0, strategy |-> NoRow, result |-> NoResult,
   inserts |-> 0, insertError |-> FALSE, fetches |-> 0, caught |-> FALSE]

\* toggleActive: where the call is, the list item passed and the value sent
NoToggle == [pc |-> "idle", strategy |-> NoRow, sent |-> 0, error |-> FALSE]

\* !strategy.is_active, the column kept as 0 or 1
Not(isActive) == 1 - isActive

----------------------------------------------------------------------------
(* State: one call of one function at a time.  The functions are pure and  *)
(* share nothing, so a behaviour is a sequence of independent calls.       *)

VARIABLES
  pc,          \* "idle", or the function whose call has completed
  variant,     \* the edge-function variant the function belongs to
  marketData,  \* the bars passed (for calculateRSI: their closes)
  newsData,    \* the snippets passed
  strategy,    \* what the strategy lookup of analyzeMarket returned
  random,      \* the draw of Math.random()
  ret,         \* the value returned, or the outcome for analyzeMarket
  reads,       \* the bars the call read
  days,        \* the day count given to a generator
  draws,       \* the results of Math.random() in a generator, per iteration
  clock,       \* the host's clock and zone during a generator call
  requests,    \* the requests the handler serves, by request number
  trades,      \* the rows of the trades table, in the order inserted
  trading_sessions,  \* the rows of the trading_sessions table of index.ts
  tables,      \* the rows of the tables of the migration, by table name
  outcome,     \* the statement the database ran last, and its result
  user,        \* useAuth().user of the page
  analyzing,   \* the analyzing state of AIFeedbackPage
  analysis,    \* the call of handleAnalyze under way
  feedback,    \* the feedback state of AIFeedbackPage
  strategies,  \* the strategies state of the page
  toggles,     \* the calls of toggleActive, by call number
  refreshes    \* the calls of fetchData or fetchStrategies not yet returned

callVars == << pc, variant, marketData, newsData, strategy, random, ret, reads >>

genVars == << days, draws, clock >>

handlerVars == << requests, trades, trading_sessions >>

storeVars == << tables, outcome >>

pageVars == << user, analyzing, analysis, feedback, strategies, toggles, refreshes >>

clientVars == << storeVars, pageVars >>

vars == << callVars, genVars, handlerVars, clientVars >>

Idle ==
  /\ pc = "idle"
  /\ variant = "fixed"
  /\ marketData = << >>
  /\ newsData = << >>
  /\ strategy = NoStrategy
  /\ random = Num(0)
  /\ ret = Undefined
  /\ reads = {}
  /\ days = 0
  /\ draws = << >>
  /\ clock = NoClock

\* no request has arrived and nothing has been inserted
Unserved ==
  /\ requests = [r \in Requests |-> NoRequest]
  /\ trades = << >>
  /\ trading_sessions = {}

\* no statement has run and no page is shown
Unvisited ==
  /\ tables = NoTables
  /\ outcome = NoStatement
  /\ user = NoUser
  /\ analyzing = FALSE
  /\ analysis = NoAnalysis
  /\ feedback = {}
  /\ strategies = {}
  /\ toggles = [i \in Toggles |-> NoToggle]
  /\ refreshes = 0

Init == Idle /\ Unserved /\ Unvisited

CallCalculateTechnicalScore ==
  /\ pc = "idle"
  /\ \E v \in Variants, md \in LongSeries :
       /\ pc' = "calculateTechnicalScore"
       /\ variant' = v
       /\ marketData' = md
       /\ ret' = IF v = "fixed" THEN calculateTechnicalScore(md)
                 ELSE calculateTechnicalScoreCfg(md)
       /\ reads' = IF v = "fixed" THEN BarsReadByTechnicalScore(md)
                   ELSE BarsReadByTechnicalScoreCfg(md)
  /\ UNCHANGED << genVars, handlerVars, clientVars, newsData, strategy, random >>

CallCalculateRSI ==
  /\ pc = "idle"
  /\ \E md \in LongSeries :
       /\ pc' = "calculateRSI"
       /\ marketData' = md
       /\ ret' = calculateRSI(MapClose(md), Period)
  /\ UNCHANGED << genVars, handlerVars, clientVars, variant, newsData, strategy, random, reads >>

CallCalculateTechnicalIndicators ==
  /\ pc = "idle"
  /\ \E md \in LongSeriesWithVolume :
       /\ pc' = "calculateTechnicalIndicators"
       /\ marketData' = md
       /\ ret' = calculateTechnicalIndicators(md)
       /\ reads' = BarsReadByTechnicalIndicators(md)
  /\ UNCHANGED << genVars, handlerVars, clientVars, variant, newsData, strategy, random >>

CallAnalyzeSentiment ==
  /\ pc = "idle"
  /\ \E v \in Variants, nd \in NewsLists :
       /\ pc' = "analyzeSentiment"
       /\ variant' = v
       /\ newsData' = nd
       /\ ret' = IF v = "fixed" THEN analyzeSentiment(nd)
                 ELSE analyzeSentimentCfg(nd)
  /\ UNCHANGED << genVars, handlerVars, clientVars, marketData, strategy, random, reads >>

CallCalculateVolatility ==
  /\ pc = "idle"
  /\ \E v \in Variants, md \in ShortSeries :
       /\ pc' = "calculateVolatility"
       /\ variant' = v
       /\ marketData' = md
       /\ ret' = IF v = "fixed" THEN calculateVolatility(md)
                 ELSE calculateVolatilityCfg(md)
       /\ reads' = IF v = "fixed" THEN BarsReadByVolatility(md)
                   ELSE BarsReadByVolatilityCfg(md)
  /\ UNCHANGED << genVars, handlerVars, clientVars, newsData, strategy, random >>

CallAnalyzeMarket ==
  /\ pc = "idle"
  /\ \E v \in Variants, st \in Strategies, md \in ShortSeries,
        nd \in AnalysisNews, r \in Randoms :
       \* the draw is only made for an empty series of a found strategy
       /\ (st.found /\ md = << >>) \/ r = Num(0)
       /\ pc' = "analyzeMarket"
       /\ variant' = v
       /\ strategy' = st
       /\ marketData' = md
       /\ newsData' = nd
       /\ random' = r
       /\ ret' = IF v = "fixed" THEN analyzeMarket(st, md, nd, r)
                 ELSE analyzeMarketCfg(st, md, nd, r)
       /\ reads' = IF v = "fixed" THEN BarsReadByAnalyzeMarket(st, md)
                   ELSE BarsReadByAnalyzeMarketCfg(st, md)
  /\ UNCHANGED << genVars, handlerVars, clientVars >>

\* a call of one of the two generators; the bars generated are the result
CallGenerateMockMarketData ==
  /\ pc = "idle"
  /\ \E g \in Generators, d \in DayCounts, a \in DrawTuples, b \in DrawTuples,
        c \in Clocks :
       \* the client library reads the clock once
       /\ g = "lib" => c.rollover = 0
       /\ pc' = "generateMockMarketData"
       /\ variant' = g
       /\ days' = d
       /\ draws' = DrawStream(a, b, d)
       /\ clock' = c
       /\ ret' = IF g = "edge" THEN generateMockMarketData(d, DrawStream(a, b, d), c)
                 ELSE generateMockMarketDataLib(d, DrawStream(a, b, d), c)
  /\ UNCHANGED << handlerVars, clientVars, marketData, newsData, strategy, random, reads >>

\* the call's result has been consumed; the next call starts afresh
Finish ==
  /\ pc # "idle"
  /\ pc' = "idle"
  /\ variant' = "fixed"
  /\ marketData' = << >>
  /\ newsData' = << >>
  /\ strategy' = NoStrategy
  /\ random' = Num(0)
  /\ ret' = Undefined
  /\ reads' = {}
  /\ days' = 0
  /\ draws' = << >>
  /\ clock' = NoClock
  /\ UNCHANGED << handlerVars, clientVars >>

Next ==
  \/ CallCalculateTechnicalScore
  \/ CallCalculateRSI
  \/ CallCalculateTechnicalIndicators
  \/ CallAnalyzeSentiment
  \/ CallCalculateVolatility
  \/ CallAnalyzeMarket
  \/ CallGenerateMockMarketData
  \/ Finish

Spec == Init /\ [][Next]_vars

----------------------------------------------------------------------------
(* The steps of the handler                                                *)

\* one of the two edge functions is deployed; no request has arrived
HandlerInit ==
  /\ pc = "idle"
  /\ variant \in Variants
  /\ marketData = << >>
  /\ newsData = << >>
  /\ strategy = NoStrategy
  /\ random = Num(0)
  /\ ret = Undefined
  /\ reads = {}
  /\ days = 0
  /\ draws = << >>
  /\ clock = NoClock
  /\ Unserved
  /\ Unvisited

\* the handler up to `await supabase.auth.getUser(token)`
Serve(r) ==
  /\ requests[r].pc = "none"
  /\ \E in \in RequestInputs :
       requests' = [requests EXCEPT ![r] =
         LET req == [@ EXCEPT !.input = in]
         IN IF in.method = "OPTIONS" THEN Respond(req, OptionsResponse)
            ELSE IF ~in.authHeader.present \/ in.authHeader.value = << >>
            THEN Catch(req, "No authorization header")
            ELSE [req EXCEPT !.pc = "getUser",
                             !.token = ReplaceBearer(in.authHeader.value)]]
  /\ UNCHANGED << trades, trading_sessions, callVars, genVars, clientVars >>

\* getUser returns, as it would with its error ignored
GetUserReturns_ErrorIgnored(r) ==
  /\ requests[r].pc = "getUser"
  /\ requests' = [requests EXCEPT ![r] =
       [@ EXCEPT !.user = GetUser(requests[r].token).user,
                 !.pc = "json"]]
  /\ UNCHANGED << trades, trading_sessions, callVars, genVars, clientVars >>

\* getUser returns: from the check of its result to `await req.json()`
GetUserReturns(r) ==
  /\ requests[r].pc = "getUser"
  /\ requests' = [requests EXCEPT ![r] =
       LET res == GetUser(@.token)
       IN IF res.error \/ res.user = "" THEN Catch(@, "Unauthorized")
          ELSE [@ EXCEPT !.user = res.user, !.pc = "json"]]
  /\ UNCHANGED << trades, trading_sessions, callVars, genVars, clientVars >>

\* req.json() returns: up to the strategy lookup of executeTrade or of
\* analyzeMarket
JsonReturns(r) ==
  /\ requests[r].pc = "json"
  /\ requests' = [requests EXCEPT ![r] =
       LET body   == @.input.body
           select == Access("select", StrategiesTableName(variant), @.user,
                            body.strategyId)
       IN IF ~body.valid THEN Catch(@, "Unexpected end of JSON input")
          ELSE IF body.action = "execute_trade"
          THEN [@ EXCEPT !.parsed = TRUE,
                         !.pc = "executeTrade",
                         !.log = Append(@, select)]
          ELSE [@ EXCEPT !.parsed = TRUE,
                         !.caller = "handler",
                         !.marketData = OrEmpty(body.marketData),
                         !.newsData = OrEmpty(body.newsData),
                         !.pc = "analyzeMarket",
                         !.log = Append(@, select)]]
  /\ UNCHANGED << trades, trading_sessions, callVars, genVars, clientVars >>

\* the lookup of executeTrade returns: up to the lookup of analyzeMarket
ExecuteTradeSelectReturns(r) ==
  /\ requests[r].pc = "executeTrade"
  /\ \E mock \in TradeMocks :
       requests' = [requests EXCEPT ![r] =
         LET id     == @.input.body.strategyId
             strat  == SelectStrategy(id, @.user)
             logged == [@ EXCEPT !.log = Returned(@, IF strat.found THEN "row"
                                                     ELSE "none")]
         IN IF ~strat.found \/ ~strat.is_active
            THEN Catch(logged, "Strategy is not active")
            ELSE [logged EXCEPT
                    !.strategy = strat,
                    !.caller = "executeTrade",
                    !.marketData = mock,
                    !.newsData = TradeNews(variant),
                    !.pc = "analyzeMarket",
                    !.log = Append(@, Access("select",
                                             StrategiesTableName(variant),
                                             logged.user, id))]]
  /\ UNCHANGED << trades, trading_sessions, callVars, genVars, clientVars >>

\* the lookup of analyzeMarket returns: the analysis, and for executeTrade its
\* decision, up to the first access to the sessions or trades
AnalyzeMarketSelectReturns(r) ==
  /\ requests[r].pc = "analyzeMarket"
  /\ \E strat \in {SelectStrategy(requests[r].input.body.strategyId,
                                   requests[r].user)} :
     \E signal \in {IF strat.found
                    THEN Signal(variant, strat, requests[r].marketData,
                                requests[r].newsData)
                    ELSE NoSignal} :
       requests' = [requests EXCEPT ![r] =
         LET id     == @.input.body.strategyId
             logged == [@ EXCEPT !.log = Returned(@, IF strat.found THEN "row"
                                                     ELSE "none")]
             done   == [logged EXCEPT !.signal = signal]
         IN IF ~strat.found THEN Catch(logged, "Strategy not found")
            ELSE IF @.caller = "handler"
            THEN Respond(done, SuccessResponse("", signal))
            ELSE IF signal.action = "HOLD"
            THEN Respond(done, SuccessResponse(
                                 "No trade signal, holding position", signal))
            ELSE IF Lt(signal.confidence, TradeThreshold(variant, @.strategy))
            THEN Respond(done, SuccessResponse(
                                 "Confidence below threshold, skipping trade",
                                 signal))
            ELSE IF variant = "fixed"
            THEN [done EXCEPT
                    !.pc = "insertTrade",
                    !.log = Append(@, Access("insert", "trades", done.user,
                                             id))]
            ELSE [done EXCEPT
                    !.pc = "selectSession",
                    !.log = Append(@, Access("select", "trading_sessions",
                                             done.user, id))]]
  /\ UNCHANGED << trades, trading_sessions, callVars, genVars, clientVars >>

\* the active sessions of a user and strategy
ActiveSessions(userId, strategyId) ==
  {s \in trading_sessions :
     /\ s.user_id = userId
     /\ s.strategy_id = strategyId
     /\ s.session_status = "active"}

\* index.ts: the lookup of an active session returns, up to the insert of a
\* session or of the trade
SelectSessionReturns(r) ==
  /\ requests[r].pc = "selectSession"
  /\ LET req    == requests[r]
         id     == req.input.body.strategyId
         active == ActiveSessions(req.user, id)
     IN IF active = {}
        THEN requests' = [requests EXCEPT ![r] =
               [@ EXCEPT !.pc = "insertSession",
                         !.log = Append(Returned(@, "none"),
                                        Access("insert", "trading_sessions",
                                               req.user, id))]]
        ELSE \E s \in active :
               requests' = [requests EXCEPT ![r] =
                 [@ EXCEPT !.sessionId = s.id,
                           !.pc = "insertTrade",
                           !.log = Append(Returned(@, "row"),
                                          Access("insert", "trades",
                                                 req.user, id))]]
  /\ UNCHANGED << trades, trading_sessions, callVars, genVars, clientVars >>

\* index.ts: the insert of a session returns; on an error newSession is null
\* and reading its id throws
InsertSessionReturns(r) ==
  /\ requests[r].pc = "insertSession"
  /\ LET req == requests[r]
         id  == req.input.body.strategyId
         row == [id             |-> Cardinality(trading_sessions) + 1,
                 user_id        |-> req.user,
                 strategy_id    |-> id,
                 session_status |-> "active"]
     IN \/ /\ trading_sessions' = trading_sessions \cup {row}
           /\ requests' = [requests EXCEPT ![r] =
                [@ EXCEPT !.sessionId = row.id,
                          !.pc = "insertTrade",
                          !.log = Append(Returned(@, "ok"),
                                         Access("insert", "trades",
                                                req.user, id))]]
        \/ /\ trading_sessions' = trading_sessions
           /\ requests' = [requests EXCEPT ![r] =
                Catch([@ EXCEPT !.log = Returned(@, "error")],
                      "Cannot read properties of null (reading 'id')")]
  /\ UNCHANGED << trades, callVars, genVars, clientVars >>

\* the insert of the trade returns: the row is stored and the result
\* returned, or tradeError is thrown
InsertTradeReturns(r) ==
  /\ requests[r].pc = "insertTrade"
  /\ LET req == requests[r]
         row == [user_id     |-> req.user,
                 strategy_id |-> IF variant = "fixed"
                                 THEN req.input.body.strategyId ELSE "",
                 session_id  |-> req.sessionId,
                 symbol      |-> req.signal.symbol,
                 action      |-> req.signal.action]
     IN \/ /\ trades' = Append(trades, row)
           /\ requests' = [requests EXCEPT ![r] =
                Respond([@ EXCEPT !.log = Returned(@, "ok")],
                        SuccessResponse("Trade executed successfully",
                                        req.signal))]
        \/ /\ trades' = trades
           /\ requests' = [requests EXCEPT ![r] =
                Catch([@ EXCEPT !.log = Returned(@, "error")],
                      "insert failed")]
  /\ UNCHANGED << trading_sessions, callVars, genVars, clientVars >>

HandlerNext ==
  \E r \in Requests :
    \/ Serve(r)
    \/ GetUserReturns(r)
    \/ JsonReturns(r)
    \/ ExecuteTradeSelectReturns(r)
    \/ AnalyzeMarketSelectReturns(r)
    \/ SelectSessionReturns(r)
    \/ InsertSessionReturns(r)
    \/ InsertTradeReturns(r)

HandlerSpec == HandlerInit /\ [][HandlerNext]_vars

\* the position of a request in the text of the handler
PcRank(p) ==
  CASE p = "none"          -> 0
    [] p = "getUser"       -> 1
    [] p = "json"          -> 2
    [] p = "executeTrade"  -> 3
    [] p = "analyzeMarket" -> 4
    [] p = "selectSession" -> 5
    [] p = "insertSession" -> 6
    [] p = "insertTrade"   -> 7
    [] p = "done"          -> 8

----------------------------------------------------------------------------
(* Properties                                                              *)

\* a call of analyzeMarket returned a signal
Analyzed == pc = "analyzeMarket" /\ ~ret.threw

\* the two scores of the completed analyzeMarket call, by its variant's helpers
TechnicalScoreOfCall ==
  IF variant = "fixed" THEN calculateTechnicalScore(marketData)
  ELSE calculateTechnicalScoreCfg(marketData)

SentimentScoreOfCall ==
  IF variant = "fixed" THEN analyzeSentiment(newsData)
  ELSE analyzeSentimentCfg(newsData)

\* combined = technical_score*0.6 + sentiment_score*0.4
CombinedOfCall ==
  Add(Mul(TechnicalScoreOfCall, Rat(3, 5)), Mul(SentimentScoreOfCall, Rat(2, 5)))

\* the threshold in force: 0.6 in the fixed variant; in the configurable one
\* the strategy's confidence_threshold, 0.7 when it is missing or 0
ThresholdOfCall ==
  IF variant = "fixed" THEN Rat(3, 5)
  ELSE IF strategy.confidence_threshold \in {Undefined, Num(0)} THEN Rat(7, 10)
  ELSE strategy.confidence_threshold

\* C1 as stated: in both variants the action is BUY iff combined > 0.6, SELL
\* iff combined < 0.4 and HOLD otherwise.
C1_Original ==
  Analyzed =>
    /\ ret.value.action = "BUY" <=> Gt(CombinedOfCall, Rat(6, 10))
    /\ ret.value.action = "SELL" <=> Lt(CombinedOfCall, Rat(4, 10))
    /\ ret.value.action = "HOLD" <=>
         (~Gt(CombinedOfCall, Rat(6, 10)) /\ ~Lt(CombinedOfCall, Rat(4, 10)))

\* C1 amended: the action is one of BUY, SELL, HOLD; it is BUY iff combined > t,
\* SELL iff combined <= t and combined < 1 - t, and HOLD otherwise, where t is
\* 0.6 in the fixed variant (so SELL iff combined < 0.4) and the strategy's
\* confidence_threshold (0.7 when missing or 0) in the configurable variant.
C1_ActionByThreshold ==
  Analyzed =>
    LET c == CombinedOfCall
        t == ThresholdOfCall
    IN /\ ret.value.action \in {"BUY", "SELL", "HOLD"}
       /\ ret.value.action = "BUY" <=> Gt(c, t)
       /\ ret.value.action = "SELL" <=> (~Gt(c, t) /\ Lt(c, Sub(Num(1), t)))
       /\ ret.value.action = "HOLD" <=> (~Gt(c, t) /\ ~Lt(c, Sub(Num(1), t)))
       /\ variant = "fixed" =>
            (ret.value.action = "SELL" <=> Lt(c, Rat(4, 10)))

\* C1 witness: a fixed-variant call whose combined score is exactly the
\* threshold 0.6 and holds
C1_Witness ==
  /\ Analyzed
  /\ variant = "fixed"
  /\ CombinedOfCall = Rat(6, 10)
  /\ ret.value.action = "HOLD"

\* C2: the confidence of every returned signal is min(0.95, 2*|combined - 0.5|)
\* and lies in [0, 0.95], in both variants.
C2_Confidence ==
  Analyzed =>
    LET distance == Mul(Num(2), MathAbs(Sub(CombinedOfCall, Rat(1, 2))))
    IN /\ ret.value.confidence =
            (IF Gt(distance, Rat(95, 100)) THEN Rat(95, 100) ELSE distance)
       /\ Geq(ret.value.confidence, Num(0))
       /\ Leq(ret.value.confidence, Rat(95, 100))

\* C2 witness: a signal with a non-zero confidence on a series of several bars
C2_Witness ==
  /\ Analyzed
  /\ Len(marketData) >= 2
  /\ Len(newsData) >= 1
  /\ ret.value.confidence = Rat(52, 100)

RECURSIVE SumOfMoves(_, _, _)
\* the sum over bars i.. of the rise (direction 1) or fall (direction -1) of an
\* integral close over the previous one
SumOfMoves(md, i, direction) ==
  IF i > Len(md) THEN 0
  ELSE LET move == direction * (md[i].close.n - md[i - 1].close.n)
       IN (IF move > 0 THEN move ELSE 0) + SumOfMoves(md, i + 1, direction)

\* C3: calculateRSI with period 14 returns a value in [0, 100]; on 15 or more
\* non-negative closes it is 100 when the last 14 deltas contain no loss and
\* 100*gains/(gains+losses) otherwise.
C3_RSIRange ==
  pc = "calculateRSI" =>
    /\ Geq(ret, Num(0))
    /\ Leq(ret, Num(100))
    /\ Len(marketData) >= 15 =>
         LET gains  == SumOfMoves(marketData, Len(marketData) - 13, 1)
             losses == SumOfMoves(marketData, Len(marketData) - 13, -1)
         IN ret = IF losses = 0 THEN Num(100)
                  ELSE Rat(100 * gains, gains + losses)

\* C3 witness: an RSI strictly between 0 and 100 computed from gains and losses
C3_Witness ==
  /\ pc = "calculateRSI"
  /\ Len(marketData) >= 15
  /\ Gt(ret, Num(0))
  /\ Lt(ret, Num(100))
  /\ ret # Num(50)

\* C4: on a bar sequence of length 0 or 1 calculateTechnicalScore returns
\* exactly 0.5, in both variants, and reads no bar.
C4_ShortSeriesNeutral ==
  (pc = "calculateTechnicalScore" /\ Len(marketData) < 2) =>
    (ret = Rat(1, 2) /\ reads = {})

\* C4 witness: the configurable variant called with a single bar
C4_Witness ==
  /\ pc = "calculateTechnicalScore"
  /\ variant = "configurable"
  /\ Len(marketData) = 1
  /\ ret = Rat(1, 2)

\* C5: for fewer than 15 bars the RSI is exactly 50, from calculateRSI itself
\* and in the rsi field of calculateTechnicalIndicators.
C5_ShortSeriesRSI ==
  /\ (pc = "calculateRSI" /\ Len(marketData) < 15) => ret = Num(50)
  /\ (pc = "calculateTechnicalIndicators" /\ Len(marketData) < 15) =>
       ret.rsi = Num(50)

\* C5 witness: calculateTechnicalIndicators on exactly 14 bars whose closes
\* move, where the rsi comes from calculateRSI
C5_Witness ==
  /\ pc = "calculateTechnicalIndicators"
  /\ Len(marketData) = 14
  /\ marketData[14].close # marketData[13].close
  /\ ret.volume_trend # "neutral"
  /\ ret.rsi = Num(50)

\* the lower-cased snippet i contains a word of the list
HasHit(nd, words) ==
  \E i \in 1..Len(nd), j \in 1..Len(words) : Includes(ToLowerCase(nd[i]), words[j])

\* C6: analyzeSentiment returns exactly 0.5 on an empty list and when no
\* snippet contains a word of its positive or negative list; in every other
\* case the result is in [0, 1].
C6_SentimentNeutral ==
  pc = "analyzeSentiment" =>
    LET pos == IF variant = "fixed" THEN positiveWords ELSE positiveWordsCfg
        neg == IF variant = "fixed" THEN negativeWords ELSE negativeWordsCfg
    IN /\ newsData = << >> => ret = Rat(1, 2)
       /\ (~HasHit(newsData, pos) /\ ~HasHit(newsData, neg)) => ret = Rat(1, 2)
       /\ Geq(ret, Num(0))
       /\ Leq(ret, Num(1))

\* C6 witness: a non-empty list without any polarity word
C6_Witness ==
  /\ pc = "analyzeSentiment"
  /\ variant = "fixed"
  /\ newsData = << SnippetQuiet, SnippetQuiet >>
  /\ ret = Rat(1, 2)

\* the number of (snippet, word) pairs where the lower-cased snippet contains
\* the word
Hits(nd, words) ==
  Cardinality({pair \in (1..Len(nd)) \X (1..Len(words)) :
                 Includes(ToLowerCase(nd[pair[1]]), words[pair[2]])})

\* C7 as stated: in both variants analyzeSentiment counts the hits over the
\* nine-word positive list (... surge, adoption) and the nine-word negative
\* list (... drop, fear) and returns positive/(positive+negative) when there
\* is a hit; 'strong bullish rally' scores 1.0 on 3 positive hits.
C7_Original ==
  pc = "analyzeSentiment" =>
    LET positive == Hits(newsData, positiveWords)
        negative == Hits(newsData, negativeWords)
    IN /\ positive + negative > 0 => ret = Rat(positive, positive + negative)
       /\ newsData = << SnippetRally >> =>
            (positive = 3 /\ negative = 0 /\ ret = Num(1))

RECURSIVE SumOfCloses(_, _)
\* the sum of the integral closes of bars i..
SumOfCloses(md, i) ==
  IF i > Len(md) THEN 0 ELSE md[i].close.n + SumOfCloses(md, i + 1)

PositiveCloses(md) == \A i \in 1..Len(md) : Gt(md[i].close, Num(0))

\* C8: on n >= 2 bars with positive closes calculateTechnicalScore returns
\* (trendScore + momentumScore)/2, trendScore 0.6 iff the last close is above
\* the mean of the last min(20, n) closes and momentumScore 0.6 iff it is above
\* the previous close, 0.4 otherwise; closes [100, 110] give 0.6.
C8_TechnicalScore ==
  (pc = "calculateTechnicalScore" /\ Len(marketData) >= 2
     /\ PositiveCloses(marketData)) =>
    LET n        == Len(marketData)
        m        == IF n < 20 THEN n ELSE 20
        last     == marketData[n].close.n
        previous == marketData[n - 1].close.n
        trend    == IF last * m > SumOfCloses(marketData, n - m + 1) THEN 6 ELSE 4
        momentum == IF last > previous THEN 6 ELSE 4
    IN /\ ret = Rat(trend + momentum, 20)
       /\ MapClose(marketData) = << Num(100), Num(110) >> => ret = Rat(6, 10)

\* C8 witness: more than 20 bars, the last close above the mean of the last 20
\* but not above the mean of all of them
C8_Witness ==
  /\ pc = "calculateTechnicalScore"
  /\ Len(marketData) > 20
  /\ PositiveCloses(marketData)
  /\ ret = Rat(6, 10)
  /\ marketData[Len(marketData)].close.n * Len(marketData)
       <= SumOfCloses(marketData, 1)

\* the volatility analyzeMarket computed in the completed call
VolatilityOfCall ==
  IF variant = "fixed" THEN calculateVolatility(marketData)
  ELSE calculateVolatilityCfg(marketData)

\* r is x rounded to 2 decimals (NaN and the infinities are kept)
RoundedTo2(x, r) ==
  IF x.k # "fin" THEN r = x
  ELSE /\ IsRational(r)
       /\ 100 % r.d = 0
       /\ Leq(MathAbs(Sub(r, x)), Rat(1, 200))

\* the levels C9 names, before rounding
TargetLevel(a, l, v) ==
  CASE a = "BUY"  -> Mul(l, Add(Num(1), Mul(Num(2), v)))
    [] a = "SELL" -> Mul(l, Sub(Num(1), Mul(Num(2), v)))
    [] a = "HOLD" -> l

StopLevel(a, l, p) ==
  CASE a = "BUY"  -> Mul(l, Sub(Num(1), Div(p, Num(100))))
    [] a = "SELL" -> Mul(l, Add(Num(1), Div(p, Num(100))))
    [] a = "HOLD" -> l

\* C9 as stated: on a non-empty series analyzeMarket (fixed variant) returns
\* price_target exactly L*(1+2v), L*(1-2v) or L and stop_loss exactly
\* L*(1-p/100), L*(1+p/100) or L for BUY, SELL or HOLD.
C9_Original ==
  (Analyzed /\ variant = "fixed" /\ Len(marketData) > 0) =>
    LET l == marketData[Len(marketData)].close
    IN /\ ret.value.price_target =
            TargetLevel(ret.value.action, l, VolatilityOfCall)
       /\ ret.value.stop_loss =
            StopLevel(ret.value.action, l, strategy.stop_loss_percentage)

\* C9 amended: price_target and stop_loss are those levels rounded to 2
\* decimals; combined 0.65, p = 2.0, L = 50000 gives BUY, confidence 0.3,
\* stop_loss 49000 in the fixed variant.
C9_RoundedLevels ==
  (Analyzed /\ Len(marketData) > 0) =>
    LET l == marketData[Len(marketData)].close
    IN /\ RoundedTo2(TargetLevel(ret.value.action, l, VolatilityOfCall),
                     ret.value.price_target)
       /\ RoundedTo2(StopLevel(ret.value.action, l, strategy.stop_loss_percentage),
                     ret.value.stop_loss)
       /\ (variant = "fixed" /\ CombinedOfCall = Rat(65, 100)
             /\ strategy.stop_loss_percentage = Num(2) /\ l = Num(50000)) =>
            /\ ret.value.action = "BUY"
            /\ ret.value.confidence = Rat(3, 10)
            /\ ret.value.stop_loss = Num(49000)

\* C9 witness: a BUY whose stop 0.997 is returned as 1 and whose target is
\* rounded from an irrational level
C9_Witness ==
  /\ Analyzed
  /\ variant = "fixed"
  /\ ret.value.action = "BUY"
  /\ Len(marketData) = 4
  /\ VolatilityOfCall.rn # 0
  /\ strategy.stop_loss_percentage = Rat(3, 10)
  /\ ret.value.stop_loss = marketData[4].close
  /\ Gt(ret.value.price_target, marketData[4].close)

RECURSIVE SumOfReturns(_, _, _)
\* the sum over bars i.. of the return over the previous bar (power 1) or of
\* its square (power 2), for integral positive closes
SumOfReturns(md, i, power) ==
  IF i > Len(md) THEN Num(0)
  ELSE LET r == Rat(md[i].close.n - md[i - 1].close.n, md[i - 1].close.n)
       IN Add(IF power = 1 THEN r ELSE Mul(r, r), SumOfReturns(md, i + 1, power))

\* the square of a value a*sqrt(q), q >= 0
SquareOf(x) == IF x.rn = 0 THEN Mul(x, x) ELSE Rat(AbsInt(x.rn), x.rd)

\* C10: calculateVolatility returns 0.02 on 0 or 1 bars; on n >= 2 bars with
\* positive closes it returns the non-negative value whose square is the
\* population variance (over the n-1 returns) of the returns, which is 0
\* exactly when all returns are equal, in particular on every 2 bars.
C10_Volatility ==
  pc = "calculateVolatility" =>
    /\ Len(marketData) < 2 => ret = Rat(2, 100)
    /\ (Len(marketData) >= 2 /\ PositiveCloses(marketData)) =>
         LET m          == Num(Len(marketData) - 1)
             meanReturn == Div(SumOfReturns(marketData, 2, 1), m)
             meanSquare == Div(SumOfReturns(marketData, 2, 2), m)
             allEqual   ==
               \A i, j \in 2..Len(marketData) :
                 marketData[i].close.n * marketData[j - 1].close.n
                   = marketData[j].close.n * marketData[i - 1].close.n
         IN /\ IsFinite(ret)
            /\ ret.n = 0 \/ ret.rn = 0
            /\ Sign(ret) >= 0
            /\ SquareOf(ret) = Sub(meanSquare, Mul(meanReturn, meanReturn))
            /\ ret = Num(0) <=> allEqual
            /\ Len(marketData) = 2 => ret = Num(0)

\* C10 witness: three unequal returns with an irrational deviation, in the
\* configurable variant
C10_Witness ==
  /\ pc = "calculateVolatility"
  /\ variant = "configurable"
  /\ Len(marketData) = 4
  /\ PositiveCloses(marketData)
  /\ ret.rn > 0

----------------------------------------------------------------------------
(* calculateTechnicalIndicators: fallback and windows                      *)

\* a completed call of calculateTechnicalIndicators on fewer than 14 bars
IndicatorsFallback ==
  pc = "calculateTechnicalIndicators" /\ Len(marketData) < 14

\* a completed call of calculateTechnicalIndicators on 14 bars or more
IndicatorsComputed ==
  pc = "calculateTechnicalIndicators" /\ Len(marketData) >= 14

\* C11 as stated: on fewer than 14 bars calculateTechnicalIndicators returns
\* rsi = 50, macd = 0 and, when there is a latest bar, sma_20 = sma_50 = its
\* close, also when that close is 0.
C11_Original ==
  IndicatorsFallback =>
    /\ ret.rsi = Num(50)
    /\ ret.macd = Num(0)
    /\ Len(marketData) > 0 =>
         /\ ret.sma_20 = marketData[Len(marketData)].close
         /\ ret.sma_50 = marketData[Len(marketData)].close

\* C12 as stated: whatever the number of bars, volume_trend is 'increasing' or
\* 'decreasing'.
C12_Original ==
  pc = "calculateTechnicalIndicators" =>
    ret.volume_trend \in {"increasing", "decreasing"}

\* C12 amended: volume_trend is 'neutral' on fewer than 14 bars and one of
\* 'increasing', 'decreasing' on 14 bars or more.
C12_VolumeTrend ==
  /\ IndicatorsFallback => ret.volume_trend = "neutral"
  /\ IndicatorsComputed => ret.volume_trend \in {"increasing", "decreasing"}

\* C12 witness: 13 bars, the last with a volume above the others, reported as
\* neutral
C12_Witness ==
  /\ pc = "calculateTechnicalIndicators"
  /\ Len(marketData) = 13
  /\ marketData[13].volume = Num(1500000)
  /\ ret.volume_trend = "neutral"

RECURSIVE SumOfVolumes(_, _)
\* the sum of the integral volumes of bars i..
SumOfVolumes(md, i) ==
  IF i > Len(md) THEN 0 ELSE md[i].volume.n + SumOfVolumes(md, i + 1)

\* the nearest multiple of 1/100 to the non-negative fraction a/b, as a count
\* of hundredths (ties upwards)
Hundredths(a, b) == (200 * a + b) \div (2 * b)

\* C13 as stated: on n >= 14 bars sma_20 is the mean of the last min(20, n)
\* closes and sma_50 the mean of the last min(50, n) closes (as returned, to 2
\* decimals), and volume_trend is 'increasing' iff the latest volume is above
\* the mean of the last min(20, n) volumes.
C13_Original ==
  IndicatorsComputed =>
    LET n   == Len(marketData)
        m20 == IF n < 20 THEN n ELSE 20
        m50 == IF n < 50 THEN n ELSE 50
    IN /\ ret.sma_20 = Rat(Hundredths(SumOfCloses(marketData, n - m20 + 1), m20), 100)
       /\ ret.sma_50 = Rat(Hundredths(SumOfCloses(marketData, n - m50 + 1), m50), 100)
       /\ ret.volume_trend = "increasing" <=>
            marketData[n].volume.n * m20 > SumOfVolumes(marketData, n - m20 + 1)

\* the numeric results of the completed call
NumericResults ==
  CASE pc \in {"calculateTechnicalScore", "calculateRSI", "calculateVolatility",
               "analyzeSentiment"} -> {ret}
    [] pc = "calculateTechnicalIndicators" ->
         {ret.rsi, ret.sma_20, ret.sma_50, ret.macd}
    [] OTHER -> {}

\* C14 as stated: on non-negative closes (zeros, constant series, 0 or 1 bars
\* included) and any news list, each of the five functions returns finite
\* numbers, and the neutral default (0.5, 50, 0.02, 0.5) in its degenerate case.
C14_Original ==
  /\ \A x \in NumericResults : IsFinite(x)
  /\ (pc = "calculateTechnicalScore" /\ Len(marketData) < 2) => ret = Rat(1, 2)
  /\ (pc = "calculateRSI" /\ Len(marketData) < 15) => ret = Num(50)
  /\ (pc = "calculateVolatility" /\ Len(marketData) < 2) => ret = Rat(2, 100)
  /\ (pc = "analyzeSentiment" /\ newsData = << >>) => ret = Rat(1, 2)

----------------------------------------------------------------------------
(* The generators                                                          *)

\* a generator call has completed; ret holds the bars it returned
Generated == pc = "generateMockMarketData"

\* the bars of a generated series are in range: the close from 49000 up to
\* (or up to and including) 56000, low <= close <= high, and the volume a
\* whole number in [800000, 2000000)
BarsInRange(data, closedAbove) ==
  \A k \in 1..Len(data) :
    /\ Geq(data[k].close, Num(49000))
    /\ IF closedAbove THEN Leq(data[k].close, Num(56000))
       ELSE Lt(data[k].close, Num(56000))
    /\ Leq(data[k].low, data[k].close)
    /\ Leq(data[k].close, data[k].high)
    /\ IsRational(data[k].volume) /\ data[k].volume.d = 1
    /\ data[k].volume.n >= 800000 /\ data[k].volume.n < 2000000

\* no division of the three analysis functions on the series has a zero or
\* non-finite divisor, and the results that exact arithmetic can represent
\* are finite
AnalysisDefinedOn(data) ==
  /\ \A x \in DivisorsOfTechnicalScore(data)
              \cup DivisorsOfTechnicalIndicators(data)
              \cup DivisorsOfVolatility(data) : IsFinite(x) /\ x # Num(0)
  /\ IsFinite(calculateTechnicalScore(data))
  /\ Len(data) <= 2 => IsFinite(calculateVolatility(data))
  /\ Len(data) < 14 =>
       \A f \in {"rsi", "sma_20", "sma_50", "macd"} :
         IsFinite(calculateTechnicalIndicators(data)[f])

SignalWithDraw(r) ==
  IF variant = "fixed" THEN analyzeMarket(strategy, marketData, newsData, r).value
  ELSE analyzeMarketCfg(strategy, marketData, newsData, r).value

\* C16 as stated: a second call of analyzeMarket with the same strategy, bars
\* (the empty sequence included) and news returns the same symbol, action,
\* confidence, price_target, stop_loss and rationale, whatever Math.random()
\* draws in it.
C16_Original ==
  Analyzed =>
    \A r \in Randoms :
      \A f \in {"symbol", "action", "confidence", "price_target", "stop_loss",
                "rationale"} :
        SignalWithDraw(r)[f] = ret.value[f]


\* the request was authenticated and parsed and asks for an analysis
AnalysisRequest(req) ==
  req.parsed /\ req.input.body.action # "execute_trade"

\* the request was authenticated and parsed and asks for a trade
TradeRequest(req) ==
  req.parsed /\ req.input.body.action = "execute_trade"

\* the strategies table holds a row with the id for the user
OwnsStrategy(userId, strategyId) ==
  \E row \in StrategyTable : row.id = strategyId /\ row.user_id = userId

\* the accesses of a log that are inserts
Inserts(log) == {i \in 1..Len(log) : log[i].op = "insert"}

\* C17: an analysis request for a strategy id that no row of the caller has
\* ends with the error 'Strategy not found': status 500, no signal, and the
\* one lookup that returned no row as its only store access (no insert, no
\* second lookup)
C17_StrategyNotFound ==
  \A r \in Requests :
    LET req == requests[r]
        id  == req.input.body.strategyId
    IN (req.pc = "done" /\ AnalysisRequest(req) /\ ~OwnsStrategy(req.user, id))
       => /\ req.response = ErrorResponse("Strategy not found")
          /\ req.signal = NoSignal
          /\ req.log = << [Access("select", StrategiesTableName(variant),
                                  req.user, id) EXCEPT !.result = "none"] >>
          /\ Inserts(req.log) = {}

\* an analysis request of alice for the strategy of bob has ended, and so has
\* one of hers for an id no row has
C17_Witness ==
  /\ \E r \in Requests :
       /\ requests[r].pc = "done"
       /\ AnalysisRequest(requests[r])
       /\ requests[r].user = "alice"
       /\ requests[r].input.body.strategyId = "s3"
       /\ requests[r].response.error = "Strategy not found"
  /\ \E r \in Requests :
       /\ requests[r].pc = "done"
       /\ AnalysisRequest(requests[r])
       /\ requests[r].input.body.strategyId = "s9"
       /\ requests[r].response.error = "Strategy not found"


\* the strategies table holds an inactive row with the id for the user
OwnsInactiveStrategy(userId, strategyId) ==
  \E row \in StrategyTable :
    row.id = strategyId /\ row.user_id = userId /\ ~row.is_active

\* C18: of two finished requests on the same path, one for a strategy the
\* caller has no row of and one for an inactive strategy of the caller, both
\* end with an error and the two error messages differ
C18_Original ==
  \A r1, r2 \in Requests :
    LET missing  == requests[r1]
        inactive == requests[r2]
    IN (/\ missing.pc = "done" /\ inactive.pc = "done"
        /\ \/ AnalysisRequest(missing) /\ AnalysisRequest(inactive)
           \/ TradeRequest(missing) /\ TradeRequest(inactive)
        /\ ~OwnsStrategy(missing.user, missing.input.body.strategyId)
        /\ OwnsInactiveStrategy(inactive.user, inactive.input.body.strategyId))
       => /\ missing.response.error # ""
          /\ inactive.response.error # ""
          /\ missing.response.error # inactive.response.error


\* the request carries no credential the identity provider resolves: no
\* Authorization header, an empty one, or a token of no user
Unauthorized(req) ==
  /\ req.pc # "none"
  /\ req.input.method # "OPTIONS"
  /\ \/ ~req.input.authHeader.present
     \/ req.input.authHeader.value = << >>
     \/ ReplaceBearer(req.input.authHeader.value)
          \notin {<< "token-alice" >>, << "token-bob" >>}

\* C19: a request other than OPTIONS without a credential that resolves to a
\* user is, at every step, either waiting for the identity provider or ended
\* with the status-500 error 'No authorization header' or 'Unauthorized'; its
\* body is never parsed, it makes no store access and no signal is computed
C19_UnauthorizedEndsFirst ==
  \A r \in Requests :
    LET req == requests[r]
    IN Unauthorized(req)
       => /\ req.pc \in {"getUser", "done"}
          /\ ~req.parsed
          /\ req.user = ""
          /\ req.log = << >>
          /\ req.signal = NoSignal
          /\ req.pc = "done"
             => /\ req.response.status = 500
                /\ ~req.response.success
                /\ req.response.error \in {"No authorization header",
                                           "Unauthorized"}
                /\ req.response.signal = NoSignal

\* a request without a header has ended, and so has one whose token the
\* identity provider rejected
C19_Witness ==
  /\ \E r \in Requests :
       /\ requests[r].pc = "done"
       /\ Unauthorized(requests[r])
       /\ ~requests[r].input.authHeader.present
       /\ requests[r].response.error = "No authorization header"
  /\ \E r \in Requests :
       /\ requests[r].pc = "done"
       /\ Unauthorized(requests[r])
       /\ requests[r].input.authHeader.present
       /\ requests[r].input.body.valid
       /\ requests[r].response.error = "Unauthorized"


\* C20: at every step a request has issued at most one insert, the insert is
\* the last access of its log, and a request that ended with an error has no
\* insert that was stored
C20_Original ==
  \A r \in Requests :
    LET req == requests[r]
    IN /\ Cardinality(Inserts(req.log)) <= 1
       /\ \A i \in Inserts(req.log) : i = Len(req.log)
       /\ (req.pc = "done" /\ req.response.status = 500)
          => \A i \in Inserts(req.log) : req.log[i].result # "ok"


\* the accesses of every request carry the id of the user its token resolves
\* to, and a strategies lookup that returned a row was for a row of that user
ScopedAccesses ==
  \A r \in Requests :
    LET req == requests[r]
    IN /\ req.log # << >>
          => /\ req.user \in Users
             /\ GetUser(req.token) = [user |-> req.user, error |-> FALSE]
       /\ req.strategy.found => req.strategy.user_id = req.user
       /\ \A i \in 1..Len(req.log) :
            /\ req.log[i].user_id = req.user
            /\ (req.log[i].op = "select" /\ req.log[i].result = "row"
                /\ req.log[i].table = StrategiesTableName(variant))
               => OwnsStrategy(req.log[i].user_id, req.log[i].strategy_id)

\* a step that stores a trades or trading_sessions row is the step of a request
\* waiting for that insert; the row carries the user of the request and refers
\* (directly, or through its session) to the strategy of the request, which
\* that user owns
ScopedInsert ==
  /\ \A i \in (Len(trades) + 1)..Len(trades') :
       \E r \in Requests :
         LET req == requests[r]
             id  == req.input.body.strategyId
         IN /\ req.pc = "insertTrade"
            /\ requests'[r].pc = "done"
            /\ trades'[i].user_id = req.user
            /\ OwnsStrategy(req.user, id)
            /\ variant = "fixed" => trades'[i].strategy_id = id
            /\ variant = "configurable"
               => \E s \in trading_sessions :
                    /\ s.id = trades'[i].session_id
                    /\ s.user_id = req.user
                    /\ s.strategy_id = id
  /\ \A s \in trading_sessions' \ trading_sessions :
       \E r \in Requests :
         LET req == requests[r]
         IN /\ req.pc = "insertSession"
            /\ s.user_id = req.user
            /\ s.strategy_id = req.input.body.strategyId
            /\ OwnsStrategy(req.user, s.strategy_id)

\* C21: under every interleaving of requests, each store access of a request
\* is filtered by the authenticated user's id, each strategy read is a row of
\* that user, and each row inserted into trades or trading_sessions carries
\* that user's id and refers to a strategy the user owns
C21_UserScoped == [](ScopedAccesses) /\ [][ScopedInsert]_vars

\* a trade of alice is stored while a request of bob is between two of its
\* store accesses
C21_Witness ==
  /\ \E i \in 1..Len(trades) : trades[i].user_id = "alice"
  /\ \E r \in Requests :
       /\ requests[r].user = "bob"
       /\ requests[r].pc \in {"executeTrade", "analyzeMarket"}
       /\ requests[r].log # << >>


\* C24: a signal returned by the fixed-threshold analyzeMarket is labelled
\* 'positive' exactly when its action is BUY, 'negative' exactly when it is
\* SELL and 'neutral' exactly when it is HOLD
C24_LabelFollowsAction ==
  (Analyzed /\ variant = "fixed")
  => LET label == ret.value.sentiment_analysis.overall_sentiment
         action == ret.value.action
     IN /\ label \in {"positive", "negative", "neutral"}
        /\ label = "positive" <=> action = "BUY"
        /\ label = "negative" <=> action = "SELL"
        /\ label = "neutral" <=> action = "HOLD"

\* a HOLD signal labelled 'neutral' although the news alone score above 0.6:
\* the bars keep the combined score at or below 0.6
C24_Witness ==
  /\ Analyzed
  /\ variant = "fixed"
  /\ ret.value.action = "HOLD"
  /\ ret.value.sentiment_analysis.overall_sentiment = "neutral"
  /\ Gt(analyzeSentiment(newsData), Rat(6, 10))


\* C25: calculateTechnicalScore returns 0.4, 0.5 or 0.6; the combined score of
\* an analyzeMarket call lies in [0.24, 0.76] and the confidence of the
\* signal it returns is at most 0.52, below the cap of 0.95
C25_ScoreValues ==
  /\ pc = "calculateTechnicalScore"
     => ret \in {Rat(4, 10), Rat(5, 10), Rat(6, 10)}
  /\ Analyzed
     => /\ TechnicalScoreOfCall \in {Rat(4, 10), Rat(5, 10), Rat(6, 10)}
        /\ Geq(CombinedOfCall, Rat(24, 100))
        /\ Leq(CombinedOfCall, Rat(76, 100))
        /\ Leq(ret.value.confidence, Rat(52, 100))
        /\ Lt(ret.value.confidence, Rat(95, 100))

\* a signal whose confidence is 0.52: the technical score and the sentiment
\* score are both at the same extreme
C25_Witness ==
  /\ Analyzed
  /\ CombinedOfCall \in {Rat(24, 100), Rat(76, 100)}
  /\ ret.value.confidence = Rat(52, 100)


\* the request asks for a trade on an active strategy of its user for which
\* the code's own threshold applies: 0.6 in part_003, and in index.ts the
\* default 0.7 of a strategy with no confidence_threshold configured
TradeOnDefaultThreshold(req) ==
  /\ TradeRequest(req)
  /\ \E row \in StrategyTable :
       /\ row.id = req.input.body.strategyId
       /\ row.user_id = req.user
       /\ row.is_active
       /\ variant = "configurable" => row.confidence_threshold = Undefined

\* C26: such a request never issues an insert or a session lookup, and it ends
\* successfully with 'No trade signal, holding position' or 'Confidence below
\* threshold, skipping trade', never with 'Trade executed successfully'
C26_TradeNeverInserted ==
  \A r \in Requests :
    LET req == requests[r]
    IN TradeOnDefaultThreshold(req)
       => /\ req.pc \in {"executeTrade", "analyzeMarket", "done"}
          /\ Inserts(req.log) = {}
          /\ \A i \in 1..Len(req.log) :
               req.log[i].table = StrategiesTableName(variant)
          /\ req.pc = "done"
             => /\ req.response.success
                /\ req.response.message
                     \in {"No trade signal, holding position",
                          "Confidence below threshold, skipping trade"}

\* a trade request on such a strategy has ended with a BUY signal of
\* confidence 0.52 that was skipped
C26_Witness ==
  \E r \in Requests :
    /\ TradeOnDefaultThreshold(requests[r])
    /\ requests[r].pc = "done"
    /\ requests[r].signal.action = "BUY"
    /\ requests[r].signal.confidence = Rat(52, 100)
    /\ requests[r].response.message
         = "Confidence below threshold, skipping trade"


\* C27: a signal returned on a non-empty series with last close L >= 0 for a
\* strategy with stop_loss_percentage >= 0 has stop_loss <= L <= price_target
\* when it is a BUY, price_target <= L <= stop_loss when it is a SELL and
\* price_target = stop_loss = L when it is a HOLD, L rounded to 2 decimals as
\* the two levels are
C27_Original ==
  (/\ Analyzed
   /\ Len(marketData) > 0
   /\ Geq(marketData[Len(marketData)].close, Num(0))
   /\ Geq(strategy.stop_loss_percentage, Num(0)))
  => LET l      == NumberToFixed(marketData[Len(marketData)].close, 2)
         target == ret.value.price_target
         stop   == ret.value.stop_loss
     IN /\ ret.value.action = "BUY" => Leq(stop, l) /\ Leq(l, target)
        /\ ret.value.action = "SELL" => Leq(target, l) /\ Leq(l, stop)
        /\ ret.value.action = "HOLD" => target = l /\ stop = l


\* the response of a finished request has one of the three shapes of the
\* handler; a request that has not finished has none
ResponseShape ==
  \A r \in Requests :
    LET req == requests[r]
        res == req.response
    IN /\ req.pc # "done" => res = NoResponse
       /\ req.pc = "done"
          => /\ res.cors
             /\ req.input.method = "OPTIONS"
                => /\ res = OptionsResponse
                   /\ req.token = << >> /\ req.user = "" /\ req.log = << >>
             /\ req.input.method # "OPTIONS"
                => \/ /\ res.status = 200
                      /\ res.success
                      /\ res.error = ""
                      /\ res.signal # NoSignal
                      /\ res.signal = req.signal
                   \/ /\ res.status = 500
                      /\ ~res.success
                      /\ res.error # ""
                      /\ res.signal = NoSignal
                      /\ res.message = ""

\* a request that has not finished waits for the identity provider, for its
\* body, or for the one store call it issued last; a finished request has no
\* call outstanding
Awaiting ==
  \A r \in Requests :
    LET req     == requests[r]
        pending == {i \in 1..Len(req.log) : req.log[i].result = "pending"}
    IN /\ req.pc \in {"none", "getUser", "json"} => req.log = << >>
       /\ req.pc \in {"executeTrade", "analyzeMarket", "selectSession",
                      "insertSession", "insertTrade"}
          => pending = {Len(req.log)} /\ req.log # << >>
       /\ req.pc = "done" => pending = {}

\* a step moves one request forward in the handler and leaves the others,
\* the finished ones among them, as they are
OneWay ==
  \E r \in Requests :
    /\ PcRank(requests'[r].pc) > PcRank(requests[r].pc)
    /\ \A q \in Requests \ {r} : requests'[q] = requests[q]

\* C28: a request gets at most one response and none while a call of its is
\* outstanding: each step moves one request forward to its next await or to
\* its response, every exception ending in the catch clause, and a finished
\* request is left alone; the response is the status-200 CORS response
\* without any authorization step for OPTIONS and otherwise
\* {success: true, ...} or status 500 {error: message}, always with the CORS
\* headers
C28_OneResponse ==
  /\ [](ResponseShape)
  /\ [](Awaiting)
  /\ [][OneWay]_vars

\* a request ended with the error of a failed insert while an OPTIONS request
\* was answered
C28_Witness ==
  /\ \E r \in Requests :
       /\ requests[r].pc = "done"
       /\ requests[r].response = ErrorResponse("insert failed")
  /\ \E r \in Requests :
       /\ requests[r].pc = "done"
       /\ requests[r].input.method = "OPTIONS"
       /\ requests[r].response.status = 200

----------------------------------------------------------------------------
(* The database serving the statements of authenticated users: any user    *)
(* may send any statement on any of the four tables at any time.           *)

\* a statement has run: the tables and the last outcome change together
Ran(uid, op, table, row, result) ==
  /\ tables' = result.tables
  /\ outcome' = Statement(uid, op, table, row, result)
  /\ UNCHANGED << callVars, genVars, handlerVars, pageVars >>

SelectRows ==
  \E uid \in Users, table \in TableNames :
    Ran(uid, "select", table, NoRow, Select(tables, uid, table))

InsertRow ==
  \E uid \in Users, table \in TableNames :
    \E row \in RowsOf(table) :
      Ran(uid, "insert", table, row, Insert(tables, uid, table, row))

UpdateRow ==
  \E uid \in Users, table \in TableNames :
    \E row \in RowsOf(table) :
      Ran(uid, "update", table, row, Update(tables, uid, table, row))

DeleteRow ==
  \E uid \in Users, table \in TableNames :
    \E id \in RowIds :
      Ran(uid, "delete", table, [NoRow EXCEPT !.id = id],
          Delete(tables, uid, table, id))

UpsertRow ==
  \E uid \in Users, table \in TableNames :
    \E row \in RowsOf(table) :
      Ran(uid, "upsert", table, row, Upsert(tables, uid, table, row))

StoreNext ==
  \/ SelectRows
  \/ InsertRow
  \/ UpdateRow
  \/ DeleteRow
  \/ UpsertRow

StoreSpec == Init /\ [][StoreNext]_vars

----------------------------------------------------------------------------
(* Row-level security                                                      *)

\* the statement just run left the rows of the other users alone: none of
\* them was changed or deleted, none was added, and none was returned
Isolated ==
  LET uid == outcome'.user
  IN /\ \A t \in TableNames :
          \A row \in tables[t] : row.user_id # uid => row \in tables'[t]
     /\ \A t \in TableNames :
          \A row \in tables'[t] \ tables[t] : row.user_id = uid
     /\ \A row \in outcome'.rows : row.user_id = uid

\* the statement just run did what it was sent for when it was about the
\* sender's own rows
Able ==
  LET o   == outcome'
      uid == o.user
      t   == o.table
      mine == \E old \in tables[t] : old.id = o.row.id /\ old.user_id = uid
  IN /\ o.op = "select" =>
          o.rows = {row \in tables[t] : row.user_id = uid}
     /\ ( /\ o.op = "insert"
          /\ o.row.user_id = uid
          /\ ~\E old \in tables[t] : old.id = o.row.id
          /\ RefsExist(tables, o.row) ) =>
          o.row \in tables'[t]
     /\ ( /\ o.op = "update"
          /\ mine
          /\ o.row.user_id = uid
          /\ RefsExist(tables, o.row) ) =>
          o.row \in tables'[t]
     /\ (o.op = "delete" /\ mine) =>
          ~\E row \in tables'[t] : row.id = o.row.id

\* C22: on each of the four tables, whatever statements authenticated users
\* send, a user can select, insert, update and delete the rows whose user_id
\* is their own uid, and never reads, inserts, changes or deletes a row whose
\* user_id is another user's.
C22_Original == [][Isolated /\ Able]_vars

\* C23: a row of ai_feedback, once inserted, keeps every field for as long as
\* it exists: a statement of an authenticated user leaves it as it is or
\* deletes it.
C23_FeedbackImmutable ==
  [][\A row \in tables["ai_feedback"] :
       \/ row \in tables'["ai_feedback"]
       \/ ~\E next \in tables'["ai_feedback"] : next.id = row.id]_vars

\* the owner of an ai_feedback row sent an UPDATE or an upsert giving the
\* row other values, and the row is still there
C23_Witness ==
  /\ outcome.op \in {"update", "upsert"}
  /\ outcome.table = "ai_feedback"
  /\ outcome.row.user_id = outcome.user
  /\ \E row \in tables["ai_feedback"] :
       /\ row.id = outcome.row.id
       /\ row.user_id = outcome.user
       /\ row # outcome.row
       /\ RefsExist(tables, outcome.row)

----------------------------------------------------------------------------
(* AIFeedbackPage: handleAnalyze and the fetchData it starts.  The page    *)
(* shows the active strategies it fetched; the strategy may have been      *)
(* deleted since, and the visitor may no longer be signed in.              *)

\* the strategy the page lists
ListedStrategy == TableRow(1, "alice", NoRef, NoRef, 1)

FeedbackPageInit ==
  /\ Idle
  /\ Unserved
  /\ tables \in {NoTables, [NoTables EXCEPT !["strategies"] = {ListedStrategy}]}
  /\ outcome = NoStatement
  /\ user \in {NoUser, "alice"}
  /\ analyzing = FALSE
  /\ analysis = NoAnalysis
  /\ feedback = {}
  /\ strategies = {ListedStrategy}
  /\ toggles = [i \in Toggles |-> NoToggle]
  /\ refreshes = 0

\* the row handleAnalyze inserts: the id is the store's fresh default
FeedbackRow(userId, strat, id) == TableRow(id, userId, strat.id, NoRef, 0)

\* if (!insertError) fetchData(), with the condition dropped
FetchesAfterInsert_Always(insertError) == 1

\* if (!insertError) fetchData(): the calls of fetchData made
FetchesAfterInsert(insertError) == IF ~insertError THEN 1 ELSE 0

\* onClick={() => handleAnalyze(strategy)} of a button that is not disabled
HandleAnalyze ==
  /\ ~analyzing
  /\ analysis.pc \in {"idle", "done"}
  /\ analysis.n < MaxAnalyses
  /\ \E strat \in strategies :
       IF user = NoUser
       THEN /\ analysis' = [NoAnalysis EXCEPT !.pc = "done",
                                              !.n = analysis.n + 1,
                                              !.strategy = strat]
            /\ UNCHANGED analyzing
       ELSE /\ analyzing' = TRUE
            /\ analysis' = [NoAnalysis EXCEPT !.pc = "analyzeTrading",
                                              !.n = analysis.n + 1,
                                              !.strategy = strat]
  /\ UNCHANGED << callVars, genVars, handlerVars, storeVars, user, feedback,
                  strategies, toggles, refreshes >>

\* await analyzeTrading(...) settles: with a result, the insert is sent; with
\* none, or when it throws, the finally clause ends the call
AnalyzeTradingReturns ==
  /\ analysis.pc = "analyzeTrading"
  /\ \/ \E a \in Actions :
          /\ analysis' = [analysis EXCEPT !.pc = "insert",
                                          !.result = [action |-> a],
                                          !.inserts = @ + 1]
          /\ UNCHANGED analyzing
     \/ /\ analysis' = [analysis EXCEPT !.pc = "done"]
        /\ analyzing' = FALSE
     \/ /\ analysis' = [analysis EXCEPT !.pc = "done", !.caught = TRUE]
        /\ analyzing' = FALSE
  /\ UNCHANGED << callVars, genVars, handlerVars, storeVars, user, feedback,
                  strategies, toggles, refreshes >>

\* await supabase.from('ai_feedback').insert(...) settles: the store ran the
\* statement, or the request failed and an error is returned, or it throws
InsertReturns ==
  /\ analysis.pc = "insert"
  /\ \/ \E result \in {Insert(tables, user, "ai_feedback",
                              FeedbackRow(user, analysis.strategy,
                                          analysis.n))} :
          /\ tables' = result.tables
          /\ outcome' = Statement(user, "insert", "ai_feedback",
                                  FeedbackRow(user, analysis.strategy,
                                              analysis.n), result)
          /\ analysis' = [analysis EXCEPT
                            !.pc = "done",
                            !.insertError = result.error,
                            !.fetches = FetchesAfterInsert(result.error)]
          /\ refreshes' = refreshes + FetchesAfterInsert(result.error)
     \/ /\ analysis' = [analysis EXCEPT
                          !.pc = "done",
                          !.insertError = TRUE,
                          !.fetches = FetchesAfterInsert(TRUE)]
        /\ refreshes' = refreshes + FetchesAfterInsert(TRUE)
        /\ UNCHANGED storeVars
     \/ /\ analysis' = [analysis EXCEPT !.pc = "done", !.caught = TRUE]
        /\ UNCHANGED << storeVars, refreshes >>
  /\ analyzing' = FALSE
  /\ UNCHANGED << callVars, genVars, handlerVars, user, feedback, strategies,
                  toggles >>

\* fetchData settles: both lists are replaced, or an error is logged
FetchDataReturns ==
  /\ refreshes > 0
  /\ refreshes' = refreshes - 1
  /\ \/ /\ feedback' = Select(tables, user, "ai_feedback").rows
        /\ strategies' = {row \in Select(tables, user, "strategies").rows :
                            row.data = 1}
     \/ UNCHANGED << feedback, strategies >>
  /\ UNCHANGED << callVars, genVars, handlerVars, storeVars, user, analyzing,
                  analysis, toggles >>

FeedbackPageNext ==
  \/ HandleAnalyze
  \/ AnalyzeTradingReturns
  \/ InsertReturns
  \/ FetchDataReturns

\* an awaited call settles, and its continuation is then run
FeedbackPageSpec ==
  /\ FeedbackPageInit
  /\ [][FeedbackPageNext]_vars
  /\ WF_vars(AnalyzeTradingReturns)
  /\ WF_vars(InsertReturns)

\* a call of handleAnalyze starts: signed in, the flag is set; not signed in,
\* the call ends at once and changes nothing else
Starts ==
  analysis'.n = analysis.n + 1 =>
    IF user = NoUser
    THEN analysis'.pc = "done" /\ UNCHANGED << analyzing, storeVars, refreshes >>
    ELSE analyzing' = TRUE /\ analysis'.pc = "analyzeTrading"

\* a row is added to ai_feedback only by the insert of a call that has a
\* result, one row, and the call ends with it
InsertsOnce ==
  tables'["ai_feedback"] # tables["ai_feedback"] =>
    /\ analysis.pc = "insert"
    /\ analysis.result.action \in Actions
    /\ analysis'.pc = "done"
    /\ \E row \in tables'["ai_feedback"] \ tables["ai_feedback"] :
         tables'["ai_feedback"] = tables["ai_feedback"] \cup {row}

\* fetchData is called only by a step whose insert stored its row and
\* reported no error
RefetchesAfterInsert ==
  refreshes' > refreshes =>
    /\ refreshes' = refreshes + 1
    /\ analysis.pc = "insert"
    /\ ~analysis'.insertError
    /\ ~outcome'.error
    /\ tables'["ai_feedback"] # tables["ai_feedback"]

\* with nobody signed in nothing is sent and the flag stays as it was
NothingWithoutUser ==
  user = NoUser =>
    /\ ~analyzing
    /\ analysis.pc \in {"idle", "done"}
    /\ analysis.inserts = 0
    /\ outcome = NoStatement
    /\ tables["ai_feedback"] = {}
    /\ refreshes = 0

\* C29: handleAnalyze of a signed-in user sets analyzing at its start and
\* every path resets it (a result, no result, analyzeTrading or the insert
\* throwing); a call inserts at most one ai_feedback row, and only with a
\* result; the list is fetched again only after an insert without error; with
\* nobody signed in nothing is analysed or inserted and the flag is unchanged.
C29_HandleAnalyze ==
  /\ [][Starts]_vars
  /\ analyzing ~> ~analyzing
  /\ [](analysis.inserts <= 1)
  /\ [][InsertsOnce]_vars
  /\ [][RefetchesAfterInsert]_vars
  /\ [](NothingWithoutUser)

\* the second call of handleAnalyze has ended: it had a result, its insert
\* reported no error, and the list fetched afterwards shows the rows
C29_Witness ==
  /\ analysis.n = 2
  /\ analysis.pc = "done"
  /\ ~analyzing
  /\ analysis.result.action \in Actions
  /\ ~analysis.insertError
  /\ ~analysis.caught
  /\ feedback = tables["ai_feedback"]
  /\ feedback # {}

----------------------------------------------------------------------------
(* StrategiesPage: toggleActive and the fetchStrategies it starts.  The    *)
(* page shows the list it fetched last; the toggle button of a strategy is *)
(* never disabled.                                                         *)

StrategiesPageInit ==
  /\ Idle
  /\ Unserved
  /\ \E isActive \in [RowIds -> {0, 1}] :
       tables = [NoTables EXCEPT !["strategies"] =
                   {TableRow(id, "alice", NoRef, NoRef, isActive[id]) :
                      id \in RowIds}]
  /\ outcome = NoStatement
  /\ user = "alice"
  /\ analyzing = FALSE
  /\ analysis = NoAnalysis
  /\ feedback = {}
  /\ strategies = tables["strategies"]
  /\ toggles = [i \in Toggles |-> NoToggle]
  /\ refreshes = 0

\* .update({ is_active: !strategy.is_active }).eq('id', strategy.id): the
\* stored row with the one column replaced
ToggledRow(tbls, strat, sent) ==
  IF \E old \in tbls["strategies"] : old.id = strat.id
  THEN [(CHOOSE old \in tbls["strategies"] : old.id = strat.id)
          EXCEPT !.data = sent]
  ELSE [strat EXCEPT !.data = sent]

\* onClick={() => toggleActive(strategy)}: the update is sent with the value
\* of the list item negated
ToggleActive(i) ==
  /\ toggles[i].pc = "idle"
  /\ \A j \in Toggles : j < i => toggles[j].pc # "idle"
  /\ \E strat \in strategies :
       toggles' = [toggles EXCEPT ![i] = [pc |-> "update", strategy |-> strat,
                                          sent |-> Not(strat.data),
                                          error |-> FALSE]]
  /\ UNCHANGED << callVars, genVars, handlerVars, storeVars, user, analyzing,
                  analysis, feedback, strategies, refreshes >>

\* the awaited update settles: the store ran it and, without an error,
\* fetchStrategies is called; or the request failed and the error is logged
UpdateReturns(i) ==
  /\ toggles[i].pc = "update"
  /\ \/ \E row \in {ToggledRow(tables, toggles[i].strategy, toggles[i].sent)} :
          \E result \in {Update(tables, user, "strategies", row)} :
            /\ tables' = result.tables
            /\ outcome' = Statement(user, "update", "strategies", row, result)
            /\ toggles' = [toggles EXCEPT ![i].pc = "done",
                                          ![i].error = result.error]
            /\ refreshes' = IF result.error THEN refreshes ELSE refreshes + 1
     \/ /\ toggles' = [toggles EXCEPT ![i].pc = "done", ![i].error = TRUE]
        /\ UNCHANGED << storeVars, refreshes >>
  /\ UNCHANGED << callVars, genVars, handlerVars, user, analyzing, analysis,
                  feedback, strategies >>

\* fetchStrategies settles: the list is replaced, or an error is logged
FetchStrategiesReturns ==
  /\ refreshes > 0
  /\ refreshes' = refreshes - 1
  /\ \/ strategies' = Select(tables, user, "strategies").rows
     \/ UNCHANGED strategies
  /\ UNCHANGED << callVars, genVars, handlerVars, storeVars, user, analyzing,
                  analysis, feedback, toggles >>

StrategiesPageNext ==
  \/ \E i \in Toggles : ToggleActive(i)
  \/ \E i \in Toggles : UpdateReturns(i)
  \/ FetchStrategiesReturns

StrategiesPageSpec == StrategiesPageInit /\ [][StrategiesPageNext]_vars

\* the toggle whose update returned without error in this step
Completes(i) ==
  /\ toggles[i].pc = "update"
  /\ toggles'[i].pc = "done"
  /\ ~toggles'[i].error

\* the stored is_active of the strategy, in the tables given
StoredActive(tbls, id) ==
  {row.data : row \in {r \in tbls["strategies"] : r.id = id}}

\* C30: every completed toggleActive flips the stored is_active of its
\* strategy relative to the value stored when it writes, also when a second
\* toggle starts before fetchStrategies has refreshed the list.
C30_Original ==
  [][\A i \in Toggles :
       Completes(i) =>
         StoredActive(tables', toggles[i].strategy.id) =
           {Not(a) : a \in StoredActive(tables, toggles[i].strategy.id)}]_vars

====
